---- MODULE Spec2Model ----
(***************************************************************************)
(* Pyrite: ICPC event-feed ingest, scoreboard computation (pre-freeze and  *)
(* finalized boards) and the step-driven reveal state machine.             *)
(*                                                                         *)
(* Conventions of the translation                                          *)
(*   Option<T>      a set with at most one element: {} is None, {x} Some(x)*)
(*   String ids     team ids and problem ids are small naturals whose      *)
(*                  numeric order stands for the lexicographic order of    *)
(*                  the id strings ("T1" < "T2" < ...)                     *)
(*   DateTime       an integer number of seconds on one time line          *)
(*   HashMap<K,V>   a function whose DOMAIN is the key set; its iteration  *)
(*                  order is unspecified in Rust and is a nondeterministic *)
(*                  choice wherever the code iterates one                  *)
(***************************************************************************)
EXTENDS Integers, Sequences, FiniteSets, TLC

\* ------------------------------------------------------------------ bounds

\* A feed holds at most MaxSubmissions submissions, each judged once.
MaxSubmissions == 2
\* The award screen upserts at most MaxAwards awards.
MaxAwards == 2

\* The teams and the problems of the feed's header.
TeamIds == 1..3
ProblemIds == 1..2

\* ----------------------------------------------------------------- options

None == {}
Some(x) == {x}
IsSome(o) == o # {}
Unwrap(o) == CHOOSE x \in o : TRUE

\* ---------------------------------------------------------------- sequences

Range(s) == {s[i] : i \in 1..Len(s)}

\* All orderings of a finite set, as sequences without repetition.
Perms(S) == {s \in [1..Cardinality(S) -> S] : Range(s) = S}

\* ------------------------------------------------------- models.rs: scoring

\* The contest's judgement-type table (JudgementType.penalty / .solved).
\* AC solves, WA counts as a rejected attempt, CE is neither.
JudgementTypeTable ==
    [AC |-> [penalty |-> TRUE,  solved |-> TRUE],
     WA |-> [penalty |-> TRUE,  solved |-> FALSE],
     CE |-> [penalty |-> FALSE, solved |-> FALSE]]

\* The ProblemStat that entry(..).or_insert(..) creates.
NewProblemStat ==
    [solved |-> FALSE,
     attempted_during_freeze |-> FALSE,
     penalty |-> 0,
     submissions_before_solved |-> 0,
     first_ac_time |-> None]

\* TeamStatus::new
NewTeamStatus(team_id, sortorder) ==
    [team_id |-> team_id,
     sortorder |-> sortorder,
     total_points |-> 0,
     total_penalty |-> 0,
     last_ac_time |-> None,
     problem_stats |-> <<>>]

\* chrono Duration::num_minutes on a duration of d seconds: integer division
\* that truncates toward zero.
NumMinutes(d) == IF d >= 0 THEN d \div 60 ELSE 0 - ((0 - d) \div 60)

\* Option::is_none_or(|last| t > last)
IsNoneOrLater(last, t) == (last = None) \/ (t > Unwrap(last))

\* add_submission without its `if problem_stat.solved { return; }`.
add_submission_rescoring_solved(self, problem_id, submission_time, judgement_type_id, judgement_types, contest_start_time, contest_freeze_time) ==
    LET stats0 == IF problem_id \in DOMAIN self.problem_stats
                  THEN self.problem_stats
                  ELSE self.problem_stats @@ (problem_id :> NewProblemStat)
        self0 == [self EXCEPT !.problem_stats = stats0]
        ps0 == stats0[problem_id]
    IN
    IF ~(IsSome(judgement_type_id)
              /\ Unwrap(judgement_type_id) \in DOMAIN judgement_types) THEN self0
    ELSE
      LET jt == judgement_types[Unwrap(judgement_type_id)]
          n == IF jt.penalty \/ jt.solved
               THEN ps0.submissions_before_solved + 1
               ELSE ps0.submissions_before_solved
          frozen == submission_time > Unwrap(contest_freeze_time)
          ps1 == [ps0 EXCEPT !.submissions_before_solved = n,
                             !.attempted_during_freeze = frozen]
      IN
      IF ~jt.solved THEN [self0 EXCEPT !.problem_stats[problem_id] = ps1]
      ELSE
        LET ps2 == [ps1 EXCEPT !.solved = TRUE,
                               !.first_ac_time = Some(submission_time)]
        IN
        IF ~IsSome(contest_start_time)
        THEN [self0 EXCEPT !.problem_stats[problem_id] = ps2]
        ELSE
          LET contest_time == submission_time - Unwrap(contest_start_time)
              penalty_minutes == (n - 1) * 20
              problem_penalty == NumMinutes(contest_time) + penalty_minutes
              ps3 == [ps2 EXCEPT !.penalty = problem_penalty]
          IN
          IF frozen
          THEN [self0 EXCEPT !.problem_stats[problem_id] = ps3]
          ELSE [self0 EXCEPT
                  !.problem_stats[problem_id] = ps3,
                  !.total_points = @ + 1,
                  !.total_penalty = @ + problem_penalty,
                  !.last_ac_time = IF IsNoneOrLater(@, submission_time)
                                   THEN Some(submission_time) ELSE @]

\* add_submission without its return for a problem solved during the freeze.
add_submission_counting_freeze(self, problem_id, submission_time, judgement_type_id, judgement_types, contest_start_time, contest_freeze_time) ==
    LET stats0 == IF problem_id \in DOMAIN self.problem_stats
                  THEN self.problem_stats
                  ELSE self.problem_stats @@ (problem_id :> NewProblemStat)
        self0 == [self EXCEPT !.problem_stats = stats0]
        ps0 == stats0[problem_id]
    IN
    IF ps0.solved THEN self0
    ELSE IF ~(IsSome(judgement_type_id)
              /\ Unwrap(judgement_type_id) \in DOMAIN judgement_types) THEN self0
    ELSE
      LET jt == judgement_types[Unwrap(judgement_type_id)]
          n == IF jt.penalty \/ jt.solved
               THEN ps0.submissions_before_solved + 1
               ELSE ps0.submissions_before_solved
          frozen == submission_time > Unwrap(contest_freeze_time)
          ps1 == [ps0 EXCEPT !.submissions_before_solved = n,
                             !.attempted_during_freeze = frozen]
      IN
      IF ~jt.solved THEN [self0 EXCEPT !.problem_stats[problem_id] = ps1]
      ELSE
        LET ps2 == [ps1 EXCEPT !.solved = TRUE,
                               !.first_ac_time = Some(submission_time)]
        IN
        IF ~IsSome(contest_start_time)
        THEN [self0 EXCEPT !.problem_stats[problem_id] = ps2]
        ELSE
          LET contest_time == submission_time - Unwrap(contest_start_time)
              penalty_minutes == (n - 1) * 20
              problem_penalty == NumMinutes(contest_time) + penalty_minutes
              ps3 == [ps2 EXCEPT !.penalty = problem_penalty]
          IN
          [self0 EXCEPT
             !.problem_stats[problem_id] = ps3,
             !.total_points = @ + 1,
             !.total_penalty = @ + problem_penalty,
             !.last_ac_time = IF IsNoneOrLater(@, submission_time)
                              THEN Some(submission_time) ELSE @]

\* add_submission with `submission_time >= contest_freeze_time`.
add_submission_freeze_inclusive(self, problem_id, submission_time, judgement_type_id, judgement_types, contest_start_time, contest_freeze_time) ==
    LET stats0 == IF problem_id \in DOMAIN self.problem_stats
                  THEN self.problem_stats
                  ELSE self.problem_stats @@ (problem_id :> NewProblemStat)
        self0 == [self EXCEPT !.problem_stats = stats0]
        ps0 == stats0[problem_id]
    IN
    IF ps0.solved THEN self0
    ELSE IF ~(IsSome(judgement_type_id)
              /\ Unwrap(judgement_type_id) \in DOMAIN judgement_types) THEN self0
    ELSE
      LET jt == judgement_types[Unwrap(judgement_type_id)]
          n == IF jt.penalty \/ jt.solved
               THEN ps0.submissions_before_solved + 1
               ELSE ps0.submissions_before_solved
          frozen == submission_time >= Unwrap(contest_freeze_time)
          ps1 == [ps0 EXCEPT !.submissions_before_solved = n,
                             !.attempted_during_freeze = frozen]
      IN
      IF ~jt.solved THEN [self0 EXCEPT !.problem_stats[problem_id] = ps1]
      ELSE
        LET ps2 == [ps1 EXCEPT !.solved = TRUE,
                               !.first_ac_time = Some(submission_time)]
        IN
        IF ~IsSome(contest_start_time)
        THEN [self0 EXCEPT !.problem_stats[problem_id] = ps2]
        ELSE
          LET contest_time == submission_time - Unwrap(contest_start_time)
              penalty_minutes == (n - 1) * 20
              problem_penalty == NumMinutes(contest_time) + penalty_minutes
              ps3 == [ps2 EXCEPT !.penalty = problem_penalty]
          IN
          IF frozen
          THEN [self0 EXCEPT !.problem_stats[problem_id] = ps3]
          ELSE [self0 EXCEPT
                  !.problem_stats[problem_id] = ps3,
                  !.total_points = @ + 1,
                  !.total_penalty = @ + problem_penalty,
                  !.last_ac_time = IF IsNoneOrLater(@, submission_time)
                                   THEN Some(submission_time) ELSE @]

\* add_submission that counts a submission for every verdict of the table.
add_submission_counting_every_verdict(self, problem_id, submission_time, judgement_type_id, judgement_types, contest_start_time, contest_freeze_time) ==
    LET stats0 == IF problem_id \in DOMAIN self.problem_stats
                  THEN self.problem_stats
                  ELSE self.problem_stats @@ (problem_id :> NewProblemStat)
        self0 == [self EXCEPT !.problem_stats = stats0]
        ps0 == stats0[problem_id]
    IN
    IF ps0.solved THEN self0
    ELSE IF ~(IsSome(judgement_type_id)
              /\ Unwrap(judgement_type_id) \in DOMAIN judgement_types) THEN self0
    ELSE
      LET jt == judgement_types[Unwrap(judgement_type_id)]
          n == ps0.submissions_before_solved + 1
          frozen == submission_time > Unwrap(contest_freeze_time)
          ps1 == [ps0 EXCEPT !.submissions_before_solved = n,
                             !.attempted_during_freeze = frozen]
      IN
      IF ~jt.solved THEN [self0 EXCEPT !.problem_stats[problem_id] = ps1]
      ELSE
        LET ps2 == [ps1 EXCEPT !.solved = TRUE,
                               !.first_ac_time = Some(submission_time)]
        IN
        IF ~IsSome(contest_start_time)
        THEN [self0 EXCEPT !.problem_stats[problem_id] = ps2]
        ELSE
          LET contest_time == submission_time - Unwrap(contest_start_time)
              penalty_minutes == (n - 1) * 20
              problem_penalty == NumMinutes(contest_time) + penalty_minutes
              ps3 == [ps2 EXCEPT !.penalty = problem_penalty]
          IN
          IF frozen
          THEN [self0 EXCEPT !.problem_stats[problem_id] = ps3]
          ELSE [self0 EXCEPT
                  !.problem_stats[problem_id] = ps3,
                  !.total_points = @ + 1,
                  !.total_penalty = @ + problem_penalty,
                  !.last_ac_time = IF IsNoneOrLater(@, submission_time)
                                   THEN Some(submission_time) ELSE @]

\* TeamStatus::add_submission. contest_freeze_time is always Some in the
\* pipeline (validate_and_transform returns an error before scoring otherwise).
add_submission(self, problem_id, submission_time, judgement_type_id, judgement_types, contest_start_time, contest_freeze_time) ==
    LET stats0 == IF problem_id \in DOMAIN self.problem_stats
                  THEN self.problem_stats
                  ELSE self.problem_stats @@ (problem_id :> NewProblemStat)
        self0 == [self EXCEPT !.problem_stats = stats0]
        ps0 == stats0[problem_id]
    IN
    IF ps0.solved THEN self0
    ELSE IF ~(IsSome(judgement_type_id)
              /\ Unwrap(judgement_type_id) \in DOMAIN judgement_types) THEN self0
    ELSE
      LET jt == judgement_types[Unwrap(judgement_type_id)]
          n == IF jt.penalty \/ jt.solved
               THEN ps0.submissions_before_solved + 1
               ELSE ps0.submissions_before_solved
          frozen == submission_time > Unwrap(contest_freeze_time)
          ps1 == [ps0 EXCEPT !.submissions_before_solved = n,
                             !.attempted_during_freeze = frozen]
      IN
      IF ~jt.solved THEN [self0 EXCEPT !.problem_stats[problem_id] = ps1]
      ELSE
        LET ps2 == [ps1 EXCEPT !.solved = TRUE,
                               !.first_ac_time = Some(submission_time)]
        IN
        IF ~IsSome(contest_start_time)
        THEN [self0 EXCEPT !.problem_stats[problem_id] = ps2]
        ELSE
          LET contest_time == submission_time - Unwrap(contest_start_time)
              penalty_minutes == (n - 1) * 20
              problem_penalty == NumMinutes(contest_time) + penalty_minutes
              ps3 == [ps2 EXCEPT !.penalty = problem_penalty]
          IN
          IF frozen
          THEN [self0 EXCEPT !.problem_stats[problem_id] = ps3]
          ELSE [self0 EXCEPT
                  !.problem_stats[problem_id] = ps3,
                  !.total_points = @ + 1,
                  !.total_penalty = @ + problem_penalty,
                  !.last_ac_time = IF IsNoneOrLater(@, submission_time)
                                   THEN Some(submission_time) ELSE @]

\* Ord::cmp on integers (and on id strings, through their order-preserving
\* numbering).
IntCmp(a, b) == IF a < b THEN "Less" ELSE IF a > b THEN "Greater" ELSE "Equal"

\* impl Ord for TeamStatus. "Unreachable" stands for the unreachable!() panic
\* of the last match arm.
cmp(self, other) ==
    IF self.sortorder # other.sortorder
    THEN IntCmp(self.sortorder, other.sortorder)
    ELSE IF self.total_points # other.total_points
    THEN IntCmp(other.total_points, self.total_points)
    ELSE IF self.total_penalty # other.total_penalty
    THEN IntCmp(self.total_penalty, other.total_penalty)
    ELSE IF IsSome(self.last_ac_time) /\ IsSome(other.last_ac_time)
    THEN IntCmp(Unwrap(self.last_ac_time), Unwrap(other.last_ac_time))
    ELSE IF self.last_ac_time = None /\ other.last_ac_time = None
    THEN IntCmp(self.team_id, other.team_id)
    ELSE "Unreachable"

\* ------------------------------------------- contest_processor.rs: transform

\* Result<T, String>
Ok(v) == [ok |-> TRUE, value |-> v]
Err(kind) == [ok |-> FALSE, error |-> kind]

\* A function restricted to the keys in S (HashMap::retain).
Restrict(f, S) == [k \in (DOMAIN f) \cap S |-> f[k]]

\* PyriteConfig::default()
DefaultConfig == [filter_team_submissions |-> {}, team_group_map |-> <<>>]

\* An apply_submission_filters that keeps the judgements of the submissions it
\* removes.
apply_submission_filters_keeping_judgements(state, config) ==
    LET removed_submission_ids ==
            {sid \in DOMAIN state.submissions :
                state.submissions[sid].team_id \in config.filter_team_submissions}
    IN [state EXCEPT
          !.submissions = Restrict(@, (DOMAIN @) \ removed_submission_ids)]

apply_submission_filters(state, config) ==
    LET removed_submission_ids ==
            {sid \in DOMAIN state.submissions :
                state.submissions[sid].team_id \in config.filter_team_submissions}
    IN [state EXCEPT
          !.submissions = Restrict(@, (DOMAIN @) \ removed_submission_ids),
          !.judgements = Restrict(@, {jid \in DOMAIN @ :
                              @[jid].submission_id \notin removed_submission_ids})]

\* An apply_team_group_remap that adds the mapped group to the team's groups.
apply_team_group_remap_adding_group(state, config) ==
    LET map == config.team_group_map
        bad == {t \in DOMAIN map :
                  map[t] \notin DOMAIN state.groups \/ t \notin DOMAIN state.teams}
        remapped == [t \in DOMAIN state.teams |->
                        IF t \in DOMAIN map /\ map[t] \in DOMAIN state.groups
                        THEN [state.teams[t] EXCEPT !.group_ids = Append(@, map[t])]
                        ELSE state.teams[t]]
    IN [result |-> IF bad = {} THEN Ok(TRUE) ELSE Err("InvalidRemap"),
        state |-> [state EXCEPT !.teams = remapped]]

\* team_group_map is a function team_id -> target group id.
apply_team_group_remap(state, config) ==
    LET map == config.team_group_map
        bad == {t \in DOMAIN map :
                  map[t] \notin DOMAIN state.groups \/ t \notin DOMAIN state.teams}
        remapped == [t \in DOMAIN state.teams |->
                        IF t \in DOMAIN map /\ map[t] \in DOMAIN state.groups
                        THEN [state.teams[t] EXCEPT !.group_ids = <<map[t]>>]
                        ELSE state.teams[t]]
    IN [result |-> IF bad = {} THEN Ok(TRUE) ELSE Err("InvalidRemap"),
        state |-> [state EXCEPT !.teams = remapped]]

\* A validate_all_submissions_judged that accepts every store.
validate_all_submissions_judged_always_ok(state) == Ok(TRUE)

\* A validate_team_groups that only looks for teams without a group.
validate_team_groups_nonempty_only(state) ==
    IF \E t \in DOMAIN state.teams : state.teams[t].group_ids = <<>>
    THEN Err("InvalidTeamGroups")
    ELSE Ok(TRUE)

validate_all_submissions_judged(state) ==
    LET judged_submission_ids ==
            {state.judgements[j].submission_id : j \in DOMAIN state.judgements}
    IN IF \E sid \in DOMAIN state.submissions : sid \notin judged_submission_ids
       THEN Err("UnjudgedSubmission")
       ELSE Ok(TRUE)

validate_team_groups(state) ==
    IF \E t \in DOMAIN state.teams :
          \/ state.teams[t].group_ids = <<>>
          \/ \E g \in Range(state.teams[t].group_ids) : g \notin DOMAIN state.groups
    THEN Err("InvalidTeamGroups")
    ELSE Ok(TRUE)

\* ------------------------------------------ contest_processor.rs: scoreboard

Min(S) == CHOOSE x \in S : \A y \in S : x <= y

build_initial_team_status_map(state) ==
    IF \E t \in DOMAIN state.teams : state.teams[t].organization_id = None
    THEN Err("MissingOrganization")
    ELSE Ok([t \in DOMAIN state.teams |->
              LET orders == {state.groups[g].sortorder :
                               g \in Range(state.teams[t].group_ids)
                                       \cap DOMAIN state.groups}
              IN NewTeamStatus(t, IF orders = {} THEN 0 ELSE Min(orders))])

\* The sort key of build_judgement_order: the submission's time, else the
\* judgement's start_time (an Option; None sorts before every Some).
ScoringTime(state, jid) ==
    LET j == state.judgements[jid]
        s_time == IF j.submission_id \in DOMAIN state.submissions
                  THEN state.submissions[j.submission_id].time
                  ELSE None
    IN IF IsSome(s_time) THEN s_time ELSE j.start_time

\* Option<DateTime> a <= b under the derived Ord of Option.
OptLeq(a, b) == (a = None) \/ (IsSome(b) /\ Unwrap(a) <= Unwrap(b))

\* build_judgement_order collects HashMap::values() (unspecified order) and
\* sorts them stably by scoring time: the possible results are the orderings of
\* the judgement ids that are non-decreasing in scoring time.
build_judgement_order(state) ==
    {o \in Perms(DOMAIN state.judgements) :
        \A i, k \in 1..Len(o) :
            i < k => OptLeq(ScoringTime(state, o[i]), ScoringTime(state, o[k]))}

\* apply_judgement_to_status that skips a submission of an unknown team.
apply_judgement_to_status_skipping_unknown_team(state, team_status_map, jid, contest_start_time, contest_freeze_time) ==
    LET judgement == state.judgements[jid] IN
    IF judgement.submission_id \notin DOMAIN state.submissions
    THEN Ok(team_status_map)
    ELSE
      LET submission == state.submissions[judgement.submission_id] IN
      IF submission.team_id \notin DOMAIN team_status_map
      THEN Ok(team_status_map)
      ELSE IF submission.time = None
      THEN Err("UnknownSubmissionTime")
      ELSE Ok([team_status_map EXCEPT ![submission.team_id] =
                  add_submission(@, submission.problem_id, Unwrap(submission.time),
                                 judgement.judgement_type_id, state.judgement_types,
                                 Some(contest_start_time), Some(contest_freeze_time))])

apply_judgement_to_status(state, team_status_map, jid, contest_start_time, contest_freeze_time) ==
    LET judgement == state.judgements[jid] IN
    IF judgement.submission_id \notin DOMAIN state.submissions
    THEN Ok(team_status_map)
    ELSE
      LET submission == state.submissions[judgement.submission_id] IN
      IF submission.team_id \notin DOMAIN team_status_map
      THEN Err("UnknownTeam")
      ELSE IF submission.time = None
      THEN Err("UnknownSubmissionTime")
      ELSE Ok([team_status_map EXCEPT ![submission.team_id] =
                  add_submission(@, submission.problem_id, Unwrap(submission.time),
                                 judgement.judgement_type_id, state.judgement_types,
                                 Some(contest_start_time), Some(contest_freeze_time))])

\* The `for judgement in judgements { apply_judgement_to_status(..)? }` loop
\* of compute_finalized_leaderboard: stops at the first error.
RECURSIVE ApplyAll(_, _, _, _, _, _)
ApplyAll(state, team_status_map, order, i, start, freeze) ==
    IF i > Len(order) THEN Ok(team_status_map)
    ELSE LET r == apply_judgement_to_status(state, team_status_map, order[i],
                                            start, freeze)
         IN IF r.ok THEN ApplyAll(state, r.value, order, i + 1, start, freeze)
            ELSE r

\* The scoring loop of validate_and_transform: a judgement of a missing
\* submission is skipped with a warning; a submission without time whose
\* judgement has no start_time either is an error.
RECURSIVE ApplyAllPreFreeze(_, _, _, _, _, _)
ApplyAllPreFreeze(state, team_status_map, order, i, start, freeze) ==
    IF i > Len(order) THEN Ok(team_status_map)
    ELSE
      LET judgement == state.judgements[order[i]] IN
      IF judgement.submission_id \notin DOMAIN state.submissions
      THEN ApplyAllPreFreeze(state, team_status_map, order, i + 1, start, freeze)
      ELSE IF state.submissions[judgement.submission_id].time = None
              /\ judgement.start_time = None
      THEN Err("UnknownSubmissionTime")
      ELSE LET r == apply_judgement_to_status(state, team_status_map, order[i],
                                              start, freeze)
           IN IF r.ok
              THEN ApplyAllPreFreeze(state, r.value, order, i + 1, start, freeze)
              ELSE r

\* Sum of f[k] over the keys k in S.
RECURSIVE SumOver(_, _)
SumOver(f, S) ==
    IF S = {} THEN 0
    ELSE LET k == CHOOSE x \in S : TRUE IN f[k] + SumOver(f, S \ {k})

\* max of a non-empty set of integers
Max(S) == CHOOSE x \in S : \A y \in S : x >= y

\* recompute_team_totals that resets last_ac_time and does not set it again.
recompute_team_totals_no_last_ac(team_status_map) ==
    [t \in DOMAIN team_status_map |->
        LET team == team_status_map[t]
            solved == {p \in DOMAIN team.problem_stats : team.problem_stats[p].solved}
        IN [team EXCEPT
              !.total_points = Cardinality(solved),
              !.total_penalty = SumOver([p \in solved |-> team.problem_stats[p].penalty],
                                        solved),
              !.last_ac_time = None]]

\* recompute_team_totals with the `total_points += 1` of its loop left out.
recompute_team_totals_no_points(team_status_map) ==
    [t \in DOMAIN team_status_map |->
        LET team == team_status_map[t]
            solved == {p \in DOMAIN team.problem_stats : team.problem_stats[p].solved}
            ac_times == UNION {team.problem_stats[p].first_ac_time : p \in solved}
        IN [team EXCEPT
              !.total_points = 0,
              !.total_penalty = SumOver([p \in solved |-> team.problem_stats[p].penalty],
                                        solved),
              !.last_ac_time = IF ac_times = {} THEN None ELSE Some(Max(ac_times))]]

\* recompute_team_totals with the `total_penalty += stat.penalty` left out.
recompute_team_totals_no_penalty(team_status_map) ==
    [t \in DOMAIN team_status_map |->
        LET team == team_status_map[t]
            solved == {p \in DOMAIN team.problem_stats : team.problem_stats[p].solved}
            ac_times == UNION {team.problem_stats[p].first_ac_time : p \in solved}
        IN [team EXCEPT
              !.total_points = Cardinality(solved),
              !.total_penalty = 0,
              !.last_ac_time = IF ac_times = {} THEN None ELSE Some(Max(ac_times))]]

recompute_team_totals(team_status_map) ==
    [t \in DOMAIN team_status_map |->
        LET team == team_status_map[t]
            solved == {p \in DOMAIN team.problem_stats : team.problem_stats[p].solved}
            ac_times == UNION {team.problem_stats[p].first_ac_time : p \in solved}
        IN [team EXCEPT
              !.total_points = Cardinality(solved),
              !.total_penalty = SumOver([p \in solved |-> team.problem_stats[p].penalty],
                                        solved),
              !.last_ac_time = IF ac_times = {} THEN None ELSE Some(Max(ac_times))]]

\* A board is sorted when no row is Greater than a later row.
IsSorted(board) ==
    \A i, k \in 1..Len(board) : i < k => cmp(board[i], board[k]) # "Greater"

\* map_to_sorted_leaderboard moves the map's values (unspecified iteration
\* order) into a BinaryHeap and pops it empty: each pop yields a greatest
\* remaining status, and which one among statuses that compare Equal depends
\* on the heap layout, that is on the iteration order. The reversed pop
\* sequence is therefore any ordering of the statuses that is sorted under cmp.
map_to_sorted_leaderboard(team_status_map) ==
    {[i \in 1..Len(o) |-> team_status_map[o[i]]] :
        o \in {q \in Perms(DOMAIN team_status_map) :
                 IsSorted([i \in 1..Len(q) |-> team_status_map[q[i]]])}}

\* compute_finalized_leaderboard, given the order build_judgement_order yields
\* (the judgements map is not modified between the two scoring passes, so both
\* passes iterate it in the same order). The value is the set of boards
\* map_to_sorted_leaderboard can return.
compute_finalized_leaderboard(state, order) ==
    IF state.contest = None THEN Err("MissingContestTiming")
    ELSE
      LET contest == Unwrap(state.contest) IN
      IF contest.start_time = None THEN Err("MissingContestTiming")
      ELSE IF contest.scoreboard_freeze_time = None THEN Err("MissingContestTiming")
      ELSE
        LET init == build_initial_team_status_map(state) IN
        IF ~init.ok THEN init
        ELSE
          LET r == ApplyAll(state, init.value, order, 1,
                            Unwrap(contest.start_time),
                            Unwrap(contest.scoreboard_freeze_time))
          IN IF ~r.ok THEN r
             ELSE Ok(map_to_sorted_leaderboard(recompute_team_totals(r.value)))

\* The scoring part of validate_and_transform (from build_judgement_order on)
\* for one judgement order: the set of possible (result, state) pairs.
ScoreBoards(st, order) ==
    LET contest == Unwrap(st.contest)
        init == build_initial_team_status_map(st)
        warnings == {jid \in DOMAIN st.judgements :
                        st.judgements[jid].submission_id \notin DOMAIN st.submissions}
    IN
    IF ~init.ok THEN {[result |-> init, state |-> st]}
    ELSE
      LET pre == ApplyAllPreFreeze(st, init.value, order, 1,
                                   Unwrap(contest.start_time),
                                   Unwrap(contest.scoreboard_freeze_time))
      IN
      IF ~pre.ok THEN {[result |-> pre, state |-> st]}
      ELSE UNION {
             LET st2 == [st EXCEPT !.leaderboard_pre_freeze = pre_board]
                 fin == compute_finalized_leaderboard(st2, order)
             IN IF ~fin.ok THEN {[result |-> fin, state |-> st2]}
                ELSE {[result |-> Ok(warnings),
                       state |-> [st2 EXCEPT !.leaderboard_finalized = fin_board]] :
                          fin_board \in fin.value}
             : pre_board \in map_to_sorted_leaderboard(pre.value)}

\* validate_and_transform up to its call of build_judgement_order: the
\* transform and the validators. The result is Ok with the transformed store,
\* or the error the call returns with.
transform_and_validate(state, config) ==
    LET tr == apply_team_group_remap(apply_submission_filters(state, config), config)
        st == tr.state
    IN
    IF ~tr.result.ok THEN [result |-> tr.result, state |-> st]
    ELSE IF ~validate_team_groups(st).ok
    THEN [result |-> validate_team_groups(st), state |-> st]
    ELSE IF ~validate_all_submissions_judged(st).ok
    THEN [result |-> validate_all_submissions_judged(st), state |-> st]
    ELSE IF st.contest = None
    THEN [result |-> Err("MissingContestTiming"), state |-> st]
    ELSE IF Unwrap(st.contest).start_time = None
    THEN [result |-> Err("MissingContestTiming"), state |-> st]
    ELSE IF Unwrap(st.contest).scoreboard_freeze_time = None
    THEN [result |-> Err("MissingContestTiming"), state |-> st]
    ELSE [result |-> Ok({}), state |-> st]

\* validate_and_transform: every (result, state) pair the call can end with.
validate_and_transform(state, config) ==
    LET checked == transform_and_validate(state, config) IN
    IF ~checked.result.ok THEN {checked}
    ELSE UNION {ScoreBoards(checked.state, order) :
                   order \in build_judgement_order(checked.state)}

\* ------------------------------------------------------------ present_flow.rs

\* SpacePhase. Row indices are 0-based as in the source; row i of the board is
\* board[i + 1].
RevealStep == [tag |-> "RevealStep"]
Finished == [tag |-> "Finished"]
ApplyPostReveal(solved_resort, next_index, scroll_index) ==
    [tag |-> "ApplyPostReveal", solved_resort |-> solved_resort,
     next_index |-> next_index, scroll_index |-> scroll_index]
ShowAward(team_id, citations, next_index, scroll_index) ==
    [tag |-> "ShowAward", team_id |-> team_id, citations |-> citations,
     next_index |-> next_index, scroll_index |-> scroll_index]
PendingAward(team_id, citations, next_index, scroll_index) ==
    [tag |-> "PendingAward", team_id |-> team_id, citations |-> citations,
     next_index |-> next_index, scroll_index |-> scroll_index]
PostAwardScroll(next_index, scroll_index) ==
    [tag |-> "PostAwardScroll",
     next_index |-> next_index, scroll_index |-> scroll_index]

\* PresentFlowState::default()
DefaultFlow ==
    [current_reveal_index |-> None,
     reveal_initialized |-> FALSE,
     space_phase |-> RevealStep]

\* AdvanceOutcome::default()
DefaultOutcome == [scroll_index |-> None, row_reorder |-> None]

team_has_pending_freeze(team) ==
    \E p \in DOMAIN team.problem_stats :
        team.problem_stats[p].attempted_during_freeze

\* board.iter().any(team_has_pending_freeze)
AnyPending(board) == \E i \in 1..Len(board) : team_has_pending_freeze(board[i])

\* find_last_pending_index returning the first pending row instead.
find_last_pending_index_first(board) ==
    LET pending == {i \in 1..Len(board) : team_has_pending_freeze(board[i])}
    IN IF pending = {} THEN None ELSE Some(Min(pending) - 1)

\* board.iter().rposition(team_has_pending_freeze)
find_last_pending_index(board) ==
    LET pending == {i \in 1..Len(board) : team_has_pending_freeze(board[i])}
    IN IF pending = {} THEN None ELSE Some(Max(pending) - 1)

\* find_next_pending_problem_id walking ordered_problem_ids from its end.
find_next_pending_problem_id_from_end(team, ordered_problem_ids) ==
    LET hits == {i \in 1..Len(ordered_problem_ids) :
                    /\ ordered_problem_ids[i] \in DOMAIN team.problem_stats
                    /\ team.problem_stats[ordered_problem_ids[i]].attempted_during_freeze}
        frozen == {p \in DOMAIN team.problem_stats :
                      team.problem_stats[p].attempted_during_freeze}
    IN IF hits # {} THEN {Some(ordered_problem_ids[Max(hits)])}
       ELSE IF frozen # {} THEN {Some(p) : p \in frozen}
       ELSE {None}

\* The possible results of find_next_pending_problem_id: the first frozen
\* problem in ordered_problem_ids, else any frozen stat of the team (the
\* fallback iterates the stats HashMap), else None.
find_next_pending_problem_id(team, ordered_problem_ids) ==
    LET hits == {i \in 1..Len(ordered_problem_ids) :
                    /\ ordered_problem_ids[i] \in DOMAIN team.problem_stats
                    /\ team.problem_stats[ordered_problem_ids[i]].attempted_during_freeze}
        frozen == {p \in DOMAIN team.problem_stats :
                      team.problem_stats[p].attempted_during_freeze}
    IN IF hits # {} THEN {Some(ordered_problem_ids[Min(hits)])}
       ELSE IF frozen # {} THEN {Some(p) : p \in frozen}
       ELSE {None}

\* reveal_problem_result that reports a solved cell as not solved.
reveal_problem_result_unsolved(team, problem_id) ==
    IF problem_id \notin DOMAIN team.problem_stats
    THEN [team |-> team, result |-> None]
    ELSE IF ~team.problem_stats[problem_id].attempted_during_freeze
    THEN [team |-> team, result |-> None]
    ELSE [team |-> [team EXCEPT
                      !.problem_stats[problem_id].attempted_during_freeze = FALSE],
          result |-> Some(FALSE)]

\* reveal_problem_result: the team afterwards and the returned Option<bool>.
reveal_problem_result(team, problem_id) ==
    IF problem_id \notin DOMAIN team.problem_stats
    THEN [team |-> team, result |-> None]
    ELSE IF ~team.problem_stats[problem_id].attempted_during_freeze
    THEN [team |-> team, result |-> None]
    ELSE [team |-> [team EXCEPT
                      !.problem_stats[problem_id].attempted_during_freeze = FALSE],
          result |-> Some(team.problem_stats[problem_id].solved)]

\* apply_solved_problem_score without its `total_penalty += penalty`.
apply_solved_problem_score_no_penalty(team, problem_id) ==
    IF problem_id \notin DOMAIN team.problem_stats THEN team
    ELSE
      LET problem_stat == team.problem_stats[problem_id] IN
      IF ~problem_stat.solved THEN team
      ELSE [team EXCEPT
              !.total_points = @ + 1,
              !.last_ac_time =
                  IF IsSome(problem_stat.first_ac_time)
                     /\ IsNoneOrLater(@, Unwrap(problem_stat.first_ac_time))
                  THEN problem_stat.first_ac_time
                  ELSE @]

\* apply_solved_problem_score without its update of last_ac_time.
apply_solved_problem_score_no_last_ac(team, problem_id) ==
    IF problem_id \notin DOMAIN team.problem_stats THEN team
    ELSE
      LET problem_stat == team.problem_stats[problem_id] IN
      IF ~problem_stat.solved THEN team
      ELSE [team EXCEPT
              !.total_points = @ + 1,
              !.total_penalty = @ + problem_stat.penalty]

\* apply_solved_problem_score: the team afterwards.
apply_solved_problem_score(team, problem_id) ==
    IF problem_id \notin DOMAIN team.problem_stats THEN team
    ELSE
      LET problem_stat == team.problem_stats[problem_id] IN
      IF ~problem_stat.solved THEN team
      ELSE [team EXCEPT
              !.total_points = @ + 1,
              !.total_penalty = @ + problem_stat.penalty,
              !.last_ac_time =
                  IF IsSome(problem_stat.first_ac_time)
                     /\ IsNoneOrLater(@, Unwrap(problem_stat.first_ac_time))
                  THEN problem_stat.first_ac_time
                  ELSE @]

\* Insert x into a sorted sequence behind every element that is not Greater.
InsertStable(sorted, x) ==
    LET greater == {i \in 1..Len(sorted) : cmp(sorted[i], x) = "Greater"}
        at == IF greater = {} THEN Len(sorted) + 1 ELSE Min(greater)
    IN SubSeq(sorted, 1, at - 1) \o <<x>> \o SubSeq(sorted, at, Len(sorted))

RECURSIVE StableSort(_, _)
StableSort(board, n) ==
    IF n = 0 THEN <<>> ELSE InsertStable(StableSort(board, n - 1), board[n])

\* resort_leaderboard that leaves the rows where they are.
resort_leaderboard_in_place(board) == board

\* resort_leaderboard: slice::sort is a stable sort.
resort_leaderboard(board) == StableSort(board, Len(board))

\* maybe_take_award_for_team reading the entry (HashMap::get) where the source
\* removes it.
maybe_take_award_for_team_get(awards_by_team, team) ==
    IF team_has_pending_freeze(team)
    THEN [citations |-> None, awards_by_team |-> awards_by_team]
    ELSE IF team.team_id \in DOMAIN awards_by_team
    THEN [citations |-> Some(awards_by_team[team.team_id]),
          awards_by_team |-> awards_by_team]
    ELSE [citations |-> None, awards_by_team |-> awards_by_team]

\* maybe_take_award_for_team: the taken citations and the map afterwards.
maybe_take_award_for_team(awards_by_team, team) ==
    IF team_has_pending_freeze(team)
    THEN [citations |-> None, awards_by_team |-> awards_by_team]
    ELSE IF team.team_id \in DOMAIN awards_by_team
    THEN [citations |-> Some(awards_by_team[team.team_id]),
          awards_by_team |-> Restrict(awards_by_team,
                                      (DOMAIN awards_by_team) \ {team.team_id})]
    ELSE [citations |-> None, awards_by_team |-> awards_by_team]

\* usize::saturating_sub(1)
SaturatingSub1(i) == IF i > 0 THEN i - 1 ELSE 0

\* plan_award_or_advance moving the focus one row down from next_index where
\* the source moves it to next_index.
plan_award_or_advance_down(awards_by_team, board, acted_team_id, next_index) ==
    LET has_pending == AnyPending(board)
        next == IF has_pending THEN Some(next_index + 1) ELSE None
        rows == IF IsSome(acted_team_id)
                THEN {i \in 1..Len(board) : board[i].team_id = Unwrap(acted_team_id)}
                ELSE {}
        taken == IF rows = {}
                 THEN [citations |-> None, awards_by_team |-> awards_by_team]
                 ELSE maybe_take_award_for_team(awards_by_team, board[Min(rows)])
    IN [award |-> IF IsSome(taken.citations)
                  THEN Some(<<board[Min(rows)].team_id, Unwrap(taken.citations)>>)
                  ELSE None,
        next_index |-> next,
        scroll_index |-> next,
        awards_by_team |-> taken.awards_by_team]

\* plan_award_or_advance: (award, next, scroll) and the map afterwards.
plan_award_or_advance(awards_by_team, board, acted_team_id, next_index) ==
    LET has_pending == AnyPending(board)
        next == IF has_pending THEN Some(next_index) ELSE None
        rows == IF IsSome(acted_team_id)
                THEN {i \in 1..Len(board) : board[i].team_id = Unwrap(acted_team_id)}
                ELSE {}
        taken == IF rows = {}
                 THEN [citations |-> None, awards_by_team |-> awards_by_team]
                 ELSE maybe_take_award_for_team(awards_by_team, board[Min(rows)])
    IN [award |-> IF IsSome(taken.citations)
                  THEN Some(<<board[Min(rows)].team_id, Unwrap(taken.citations)>>)
                  ELSE None,
        next_index |-> next,
        scroll_index |-> next,
        awards_by_team |-> taken.awards_by_team]

\* current.unwrap_or_default().min(len.saturating_sub(1))
clamp_current_index(current, len) ==
    LET c == IF IsSome(current) THEN Unwrap(current) ELSE 0
        last == SaturatingSub1(len)
    IN IF c < last THEN c ELSE last

\* index.map(|i| i.min(len.saturating_sub(1)))
clamp_scroll_index(index, len) ==
    IF index = None THEN None
    ELSE LET last == SaturatingSub1(len)
         IN Some(IF Unwrap(index) < last THEN Unwrap(index) ELSE last)

\* The tail of AdvanceFocus without its
\* board.iter().any(team_has_pending_freeze) test: it always finishes.
AdvanceFocusUnchecked(flow, board, awards_by_team, next_index, scroll_index, row_reorder) ==
    [flow |-> [flow EXCEPT !.current_reveal_index = None,
                           !.space_phase = Finished],
     board |-> board,
     awards_by_team |-> awards_by_team,
     outcome |-> [scroll_index |-> clamp_scroll_index(scroll_index, Len(board)),
                  row_reorder |-> row_reorder]]

\* The tail shared by the PostAwardScroll arm, the ApplyPostReveal arm and the
\* no-award branch of RevealStep: move the focus, emit the scroll cue, then
\* RevealStep while a frozen cell is left, else Finished with the index cleared.
AdvanceFocus(flow, board, awards_by_team, next_index, scroll_index, row_reorder) ==
    [flow |-> IF AnyPending(board)
              THEN [flow EXCEPT !.current_reveal_index = next_index,
                                !.space_phase = RevealStep]
              ELSE [flow EXCEPT !.current_reveal_index = None,
                                !.space_phase = Finished],
     board |-> board,
     awards_by_team |-> awards_by_team,
     outcome |-> [scroll_index |-> clamp_scroll_index(scroll_index, Len(board)),
                  row_reorder |-> row_reorder]]

\* Vec of team ids of a board
TeamOrder(board) == [i \in 1..Len(board) |-> board[i].team_id]

\* The ApplyPostReveal arm's board: commit the solved cell's score to the first
\* row of that team, then re-sort.
ApplySolvedAndResort(board, team_id, problem_id) ==
    LET rows == {i \in 1..Len(board) : board[i].team_id = team_id}
        scored == IF rows = {} THEN board
                  ELSE [board EXCEPT ![Min(rows)] =
                            apply_solved_problem_score(@, problem_id)]
    IN resort_leaderboard(scored)

\* The RevealStep arm once the board has a frozen cell and the focus is set.
RevealAtFocus(flow, board, ordered_problem_ids, awards_by_team) ==
    LET current_index == clamp_current_index(flow.current_reveal_index, Len(board))
        row == current_index + 1
        acted_team_id == board[row].team_id
        Branch(next) ==
          IF IsSome(next)
          THEN
            LET problem_id == Unwrap(next)
                revealed == reveal_problem_result(board[row], problem_id)
                board1 == [board EXCEPT ![row] = revealed.team]
            IN
            IF revealed.result = Some(TRUE)
            THEN [flow |-> [flow EXCEPT !.space_phase =
                              ApplyPostReveal(Some(<<board1[row].team_id, problem_id>>),
                                              Some(current_index), Some(current_index))],
                  board |-> board1,
                  awards_by_team |-> awards_by_team,
                  outcome |-> DefaultOutcome]
            ELSE IF team_has_pending_freeze(board1[row])
            THEN [flow |-> [flow EXCEPT !.current_reveal_index = Some(current_index),
                                        !.space_phase = RevealStep],
                  board |-> board1,
                  awards_by_team |-> awards_by_team,
                  outcome |-> [scroll_index |->
                                  clamp_scroll_index(Some(current_index), Len(board1)),
                               row_reorder |-> None]]
            ELSE
              LET plan == plan_award_or_advance(awards_by_team, board1,
                                                Some(acted_team_id),
                                                SaturatingSub1(current_index))
              IN [flow |-> [flow EXCEPT !.space_phase =
                              IF IsSome(plan.award)
                              THEN PendingAward(Unwrap(plan.award)[1],
                                                Unwrap(plan.award)[2],
                                                plan.next_index, plan.scroll_index)
                              ELSE ApplyPostReveal(None, plan.next_index,
                                                   plan.scroll_index)],
                  board |-> board1,
                  awards_by_team |-> plan.awards_by_team,
                  outcome |-> DefaultOutcome]
          ELSE
            LET plan == plan_award_or_advance(awards_by_team, board,
                                              Some(acted_team_id),
                                              SaturatingSub1(current_index))
            IN IF IsSome(plan.award)
               THEN [flow |-> [flow EXCEPT !.space_phase =
                                ShowAward(Unwrap(plan.award)[1], Unwrap(plan.award)[2],
                                          plan.next_index, plan.scroll_index)],
                     board |-> board,
                     awards_by_team |-> plan.awards_by_team,
                     outcome |-> DefaultOutcome]
               ELSE AdvanceFocus(flow, board, plan.awards_by_team,
                                 plan.next_index, plan.scroll_index, None)
    IN {Branch(next) :
          next \in find_next_pending_problem_id(board[row], ordered_problem_ids)}

\* A Finished arm that starts the reveal over.
FinishedArmRestart == RevealStep

\* The Finished arm of advance_space_phase: the phase a step leaves Finished for.
FinishedArm == Finished

\* advance_space_phase on a non-empty board: the set of possible results
\* (flow, board, awards_by_team, returned outcome).
advance_space_phase(flow, board, ordered_problem_ids, awards_by_team) ==
    LET phase == flow.space_phase
        Same(next_phase) ==
            {[flow |-> [flow EXCEPT !.space_phase = next_phase],
              board |-> board,
              awards_by_team |-> awards_by_team,
              outcome |-> DefaultOutcome]}
    IN
    CASE phase.tag = "Finished" -> Same(FinishedArm)
      [] phase.tag = "ShowAward" ->
            Same(PostAwardScroll(phase.next_index, phase.scroll_index))
      [] phase.tag = "PendingAward" ->
            Same(ShowAward(phase.team_id, phase.citations,
                           phase.next_index, phase.scroll_index))
      [] phase.tag = "PostAwardScroll" ->
            {AdvanceFocus(flow, board, awards_by_team,
                          phase.next_index, phase.scroll_index, None)}
      [] phase.tag = "ApplyPostReveal" ->
            IF IsSome(phase.solved_resort)
            THEN LET team_id == Unwrap(phase.solved_resort)[1]
                     problem_id == Unwrap(phase.solved_resort)[2]
                     board1 == ApplySolvedAndResort(board, team_id, problem_id)
                 IN {AdvanceFocus(flow, board1, awards_by_team,
                                  phase.next_index, phase.scroll_index,
                                  Some(<<TeamOrder(board), TeamOrder(board1)>>))}
            ELSE {AdvanceFocus(flow, board, awards_by_team,
                               phase.next_index, phase.scroll_index, None)}
      [] phase.tag = "RevealStep" ->
            IF ~AnyPending(board)
            THEN {[flow |-> [flow EXCEPT !.current_reveal_index = None,
                                         !.space_phase = Finished],
                   board |-> board,
                   awards_by_team |-> awards_by_team,
                   outcome |-> DefaultOutcome]}
            ELSE IF flow.current_reveal_index = None
            THEN {[flow |-> [flow EXCEPT
                               !.current_reveal_index = find_last_pending_index(board),
                               !.space_phase = RevealStep],
                   board |-> board,
                   awards_by_team |-> awards_by_team,
                   outcome |-> [scroll_index |-> find_last_pending_index(board),
                                row_reorder |-> None]]}
            ELSE RevealAtFocus(flow, board, ordered_problem_ids, awards_by_team)

\* sync_reveal_focus_on_enter: the flow afterwards (its return value only
\* drives the scroll animation).
sync_reveal_focus_on_enter(flow, board) ==
    IF flow.space_phase.tag # "RevealStep" THEN flow
    ELSE IF ~flow.reveal_initialized
            \/ (IsSome(flow.current_reveal_index)
                /\ Unwrap(flow.current_reveal_index) >= Len(board))
    THEN [flow EXCEPT !.current_reveal_index = find_last_pending_index(board),
                      !.reveal_initialized = TRUE]
    ELSE flow

\* ------------------------------------------------ screens: set_award, present

\* str::trim on the citations of the model: a blank citation trims to "".
Trim(citation) == IF citation = " " THEN "" ELSE citation

RECURSIVE PushCitation(_, _, _, _)
PushCitation(by_team, team_ids, i, citation) ==
    IF i > Len(team_ids) THEN by_team
    ELSE LET t == team_ids[i]
             pushed == IF t \in DOMAIN by_team
                       THEN [by_team EXCEPT ![t] = Append(@, citation)]
                       ELSE by_team @@ (t :> <<citation>>)
         IN PushCitation(pushed, team_ids, i + 1, citation)

RECURSIVE PushAwards(_, _, _)
PushAwards(by_team, awards, ids) ==
    IF ids = {} THEN by_team
    ELSE LET a == Min(ids)
             citation == Trim(awards[a].citation)
         IN PushAwards(IF citation = "" THEN by_team
                       ELSE PushCitation(by_team, awards[a].team_ids, 1, citation),
                       awards, ids \ {a})

\* ensure_awards_initialized: awards_by_team after the call.
ensure_awards_initialized(awards_initialized, awards_by_team, state) ==
    IF awards_initialized THEN awards_by_team
    ELSE PushAwards(awards_by_team, state.awards, DOMAIN state.awards)

\* ordered_problem_ids of present::ui: problem ids by (ordinal, label); the
\* label of problem p is its id.
OrderedProblemIds(state) ==
    CHOOSE o \in Perms(DOMAIN state.problems) :
        \A i, k \in 1..Len(o) :
            i < k => \/ state.problems[o[i]].ordinal < state.problems[o[k]].ordinal
                     \/ /\ state.problems[o[i]].ordinal = state.problems[o[k]].ordinal
                        /\ o[i] < o[k]

\* apply_group_filter_for_presentation (the "Present" button); Vec::retain is
\* SelectSeq.
apply_group_filter_for_presentation(state, selected_groups) ==
    LET allowed_team_ids ==
            {t \in DOMAIN state.teams :
                \E g \in Range(state.teams[t].group_ids) : g \in selected_groups}
        submissions == Restrict(state.submissions,
                          {sid \in DOMAIN state.submissions :
                              state.submissions[sid].team_id \in allowed_team_ids})
        KeepRow(team_status) == team_status.team_id \in allowed_team_ids
        KeepTeam(team_id) == team_id \in allowed_team_ids
    IN [state EXCEPT
          !.teams = Restrict(@, allowed_team_ids),
          !.submissions = submissions,
          !.judgements = Restrict(@, {jid \in DOMAIN @ :
                              @[jid].submission_id \in DOMAIN submissions}),
          !.leaderboard_pre_freeze = SelectSeq(@, KeepRow),
          !.awards = [a \in DOMAIN @ |->
                        [@[a] EXCEPT !.team_ids = SelectSeq(@, KeepTeam)]]]

\* ---------------------------------------------------------------- the system

VARIABLES
    state,              \* ContestState
    config,             \* PyriteConfig
    stage,              \* "spawned", "ingest", "scoring", "set_award", "present",
                        \* "failed", "cancelled", "panicked"
    flow,               \* PresentFlowState
    awards_initialized, \* PresentUiState.awards_initialized
    awards_by_team,     \* PresentUiState.awards_by_team
    outcome,            \* the AdvanceOutcome of the latest advance_space_phase
    award_hist,         \* history: per team, the award phases entered so far
    due,                \* history: teams whose last frozen cell a step resolved
                        \* while awards_by_team held an entry for them
    idle_step,          \* history: the latest step was taken in phase Finished
    space_pressed,      \* a Space key event waits in the input of the next frame
    line,               \* the line the worker's read loop read last
    lines_read,         \* the ingest worker's lines_read
    error_count,        \* the ingest worker's error_count
    events,             \* the ParserEvents the worker passed to tx.send, in order
    rx_alive,           \* the caller still holds the channel's receiver
    judgement_order,    \* the `judgements` vector of validate_and_transform:
                        \* the order of its scoring loops, while they run
    pre_freeze_map      \* the `pre_freeze_map` of validate_and_transform while
                        \* its first scoring loop runs judgement by judgement

\* The ingest worker's locals and its channel.
feed_vars == <<line, lines_read, error_count, events, rx_alive, judgement_order, pre_freeze_map>>

vars == <<state, config, stage, flow, awards_initialized, awards_by_team,
          outcome, award_hist, due, idle_step, space_pressed,
          line, lines_read, error_count, events, rx_alive, judgement_order, pre_freeze_map>>

leaderboard_pre_freeze == state.leaderboard_pre_freeze
leaderboard_finalized == state.leaderboard_finalized

\* ---------------------------------------------------------------- the inputs

\* ContestState::new()
NewContestState ==
    [contest |-> None, judgement_types |-> <<>>, groups |-> <<>>, teams |-> <<>>,
     problems |-> <<>>, submissions |-> <<>>, judgements |-> <<>>, awards |-> <<>>,
     leaderboard_pre_freeze |-> <<>>, leaderboard_finalized |-> <<>>]

\* The Contest arm of parse_event_line: the freeze time is derived from the
\* start time, the duration and the freeze duration (all in seconds).
ParseContest(start_time, duration, scoreboard_freeze_duration) ==
    [start_time |-> start_time,
     penalty_time |-> 20,
     scoreboard_freeze_time |->
        IF IsSome(start_time)
        THEN Some(Unwrap(start_time) + (duration - scoreboard_freeze_duration))
        ELSE None]

\* A five-minute contest frozen for its last minute (freeze_time = 240), and
\* one whose freeze duration exceeds its duration (freeze_time = -120).
RegularContest == ParseContest(Some(0), 300, 60)
EarlyFreezeContest == ParseContest(Some(0), 60, 180)

\* Two groups: group 1 ranks first (sortorder 0), group 2 after it.
Groups == (1 :> [sortorder |-> 0]) @@ (2 :> [sortorder |-> 1])

\* The store after the feed's contest, judgement-types, groups, organizations,
\* teams and problems events: team t is in group grouping[t].
Header(contest, grouping) ==
    [NewContestState EXCEPT
        !.contest = Some(contest),
        !.judgement_types = JudgementTypeTable,
        !.groups = Groups,
        !.teams = [t \in TeamIds |->
                     [group_ids |-> <<grouping[t]>>, organization_id |-> Some("org")]],
        !.problems = [p \in ProblemIds |-> [ordinal |-> p]]]

\* The header block of a feed is HeaderLines lines long: the contest, 3
\* judgement types, 2 groups, 1 organization, 3 teams and 2 problems, and 86
\* languages lines (which parse_event_line skips).
HeaderLines == 98

\* Every team in group 1, or team 1 alone in group 2.
OneDivision == [t \in TeamIds |-> 1]
TwoDivisions == [t \in TeamIds |-> IF t = 1 THEN 2 ELSE 1]

\* Submission times of the reveal runs: before the freeze, exactly at
\* freeze_time, and inside the freeze.
RevealTimes == {90, 240, 310}
Verdicts == {"AC", "WA", "CE"}
RevealVerdicts == {"AC", "WA"}
VerdictRank(v) == IF v = "AC" THEN 1 ELSE IF v = "WA" THEN 2 ELSE 3

Citations == <<"Gold", "Silver", "Bronze">>

\* ------------------------------------------------- event_parser.rs: the worker

\* enum ParserEvent (Finished also carries the store, which is the variable
\* `state`, and the warnings).
Started == [type |-> "Started"]
Progress(n) == [type |-> "Progress", lines_read |-> n]
\* A LineError that does not say which line it is about.
LineErrorUnnumbered(line_no, message) == [type |-> "LineError", line_no |-> 0, message |-> message]
LineError(line_no, message) == [type |-> "LineError", line_no |-> line_no, message |-> message]
ParserFinished(n, errors, warnings) == [type |-> "Finished", lines_read |-> n, error_count |-> errors, warnings |-> warnings]
\* A Failed that never reaches the channel.
ParserFailedUnsent(message) == [type |-> "Progress", lines_read |-> 0]
ParserFailed(message) == [type |-> "Failed", message |-> message]

\* The worker reports Progress whenever lines_read is a multiple of 100.
ProgressEvery == 100

\* enum EventType: the type strings serde accepts for an Event.
EventTypes ==
    {"contest", "judgement-types", "languages", "problems", "groups",
     "organizations", "teams", "persons", "accounts", "state", "submissions",
     "judgements", "runs", "clarifications", "awards"}

\* The event types whose payload handle_event upserts into a map of the store
\* that the model keeps (organizations and accounts have maps it leaves out).
StoreField(type) ==
    CASE type = "judgement-types" -> "judgement_types"
      [] type = "groups" -> "groups"
      [] type = "teams" -> "teams"
      [] type = "problems" -> "problems"
      [] type = "submissions" -> "submissions"
      [] type = "judgements" -> "judgements"
      [] type = "awards" -> "awards"
      [] OTHER -> "none"

\* A line of the feed. text is "event" for the JSON of an object with a type,
\* a time and optional data, "blank" for an empty line and "malformed" for
\* any other text; data is the Option of a payload, and a payload says whether
\* it deserializes into the entity of its event type (valid), and if so the
\* entity's id and value.
EventLine(type, data) == [text |-> "event", type |-> type, data |-> data]
BlankLine == [text |-> "blank", type |-> "", data |-> None]
MalformedLine == [text |-> "malformed", type |-> "", data |-> None]
Payload(id, value) == [valid |-> TRUE, id |-> id, value |-> value]
BadPayload == [valid |-> FALSE, id |-> 0, value |-> [note |-> "bad"]]

\* serde_json::from_str::<models::Event>(line) succeeds.
DecodesAsEvent(text) == text.text = "event" /\ text.type \in EventTypes

\* A handle_event that upserts whether or not a contest is stored.
handle_event_without_contest(data, state_map, contest_defined) ==
    IF ~data.valid THEN Err("failed to parse payload")
    ELSE Ok((data.id :> data.value) @@ state_map)

\* handle_event: the map after the call, or the error.
handle_event(data, state_map, contest_defined) ==
    IF ~contest_defined THEN Err("contest not defined yet")
    ELSE IF ~data.valid THEN Err("failed to parse payload")
    ELSE Ok((data.id :> data.value) @@ state_map)

\* parse_event_line: the store after the line and the LineError events it
\* sends (their number is the value the function returns).
parse_event_line(line_no, text, st) ==
    IF ~DecodesAsEvent(text)
    THEN [state |-> st, errors |-> <<LineError(line_no, "json")>>]
    ELSE IF text.data = None
    THEN [state |-> st, errors |-> <<>>]
    ELSE
      LET data == Unwrap(text.data) IN
      IF text.type = "contest"
      THEN IF data.valid
           THEN [state |-> [st EXCEPT !.contest = Some(
                               [ParseContest(data.value.start_time, data.value.duration,
                                             data.value.scoreboard_freeze_duration)
                                  EXCEPT !.penalty_time = data.value.penalty_time])],
                 errors |-> <<>>]
           ELSE [state |-> st, errors |-> <<LineError(line_no, "contest data")>>]
      ELSE IF text.type \in {"languages", "runs", "state", "clarifications"}
      THEN [state |-> st, errors |-> <<>>]
      ELSE IF text.type \in {"judgement-types", "groups", "organizations", "teams",
                             "accounts", "problems", "submissions", "judgements",
                             "awards"}
      THEN LET field == StoreField(text.type)
               state_map == IF field = "none" THEN <<>> ELSE st[field]
               r == handle_event(data, state_map, st.contest # None)
           IN IF ~r.ok
              THEN [state |-> st, errors |-> <<LineError(line_no, r.error)>>]
              ELSE [state |-> IF field = "none" THEN st
                              ELSE [st EXCEPT ![field] = r.value],
                    errors |-> <<>>]
      ELSE [state |-> st, errors |-> <<LineError(line_no, "unexpected event type")>>]

\* The last line of a feed's header block: its second problem.
LastHeaderLine == EventLine("problems", Some(Payload(2, [ordinal |-> 2])))

\* The Progress events of the lines after line a up to line b (fewer than
\* ProgressEvery lines).
ProgressBetween(a, b) ==
    IF b \div ProgressEvery > a \div ProgressEvery
    THEN <<Progress((b \div ProgressEvery) * ProgressEvery)>>
    ELSE <<>>

\* ---------------------------------------------------------------- the actions

NumSubmissions == Cardinality(DOMAIN state.submissions)
NumJudgements == Cardinality(DOMAIN state.judgements)

\* One iteration of the worker's `for line_result in reader.lines()` loop on
\* an Ok(line).
ReadLine(text) ==
    LET line_no == lines_read + 1
        r == parse_event_line(line_no, text, state)
    IN
    /\ state' = r.state
    /\ line' = text
    /\ lines_read' = line_no
    /\ error_count' = error_count + Len(r.errors)
    /\ events' = events \o r.errors \o ProgressBetween(lines_read, line_no)

\* Lexicographic <= on triples of integers.
TripleLeq(a, b) ==
    \/ a[1] < b[1]
    \/ a[1] = b[1] /\ a[2] < b[2]
    \/ a[1] = b[1] /\ a[2] = b[2] /\ a[3] <= b[3]

SubmissionKey(s) == <<Unwrap(s.time), s.team_id, s.problem_id>>

\* A `submissions` line of the feed (handle_event inserts under a new id).
\* Submission ids count up in feed order, and the feed lists submissions by
\* (time, team, problem): the store is a map, so another line order only
\* renames the ids.
IngestSubmission(team_id, problem_id, time) ==
    LET new == [team_id |-> team_id, problem_id |-> problem_id, time |-> Some(time)]
        n == NumSubmissions
    IN
    /\ stage = "ingest"
    /\ n < MaxSubmissions
    /\ NumJudgements = n
    /\ n > 0 => TripleLeq(SubmissionKey(state.submissions[n]), SubmissionKey(new))
    /\ state.contest # None
    /\ ReadLine(EventLine("submissions", Some(Payload(n + 1, new))))
    /\ UNCHANGED <<config, stage, flow, awards_initialized, awards_by_team,
                   outcome, award_hist, due, idle_step, space_pressed,
                   rx_alive, judgement_order, pre_freeze_map>>

\* A `judgements` line of the feed for the latest submission.
IngestJudgement(verdict) ==
    LET n == NumSubmissions
        same_key == /\ n > 1
                    /\ SubmissionKey(state.submissions[n - 1])
                         = SubmissionKey(state.submissions[n])
    IN
    /\ stage = "ingest"
    /\ NumJudgements = n - 1
    /\ same_key =>
          VerdictRank(Unwrap(state.judgements[n - 1].judgement_type_id))
             <= VerdictRank(verdict)
    /\ ReadLine(EventLine("judgements", Some(Payload(n,
                    [submission_id |-> n,
                     judgement_type_id |-> Some(verdict),
                     start_time |-> state.submissions[n].time]))))
    /\ UNCHANGED <<config, stage, flow, awards_initialized, awards_by_team,
                   outcome, award_hist, due, idle_step, space_pressed,
                   rx_alive, judgement_order, pre_freeze_map>>

\* Where the load screen goes when the worker's run ends: to the award screen
\* on a Finished without line errors, to a failure message otherwise; nobody
\* receives the terminal event once the receiver is dropped.
StageAfter(finished) ==
    IF ~rx_alive THEN "cancelled"
    ELSE IF finished /\ error_count = 0 THEN "set_award"
    ELSE "failed"

\* End of the feed: the worker leaves its read loop and calls
\* validate_and_transform, which transforms and validates the store and, if
\* no validator fails, builds the judgement order of its scoring loops.
EndOfFeed ==
    LET checked == transform_and_validate(state, config) IN
    /\ stage = "ingest"
    /\ state' = checked.state
    /\ IF checked.result.ok
       THEN /\ \E order \in build_judgement_order(checked.state) :
                  judgement_order' = order
            /\ stage' = "scoring"
            /\ UNCHANGED events
       ELSE /\ events' = Append(events, ParserFailed(checked.result.error))
            /\ stage' = StageAfter(FALSE)
            /\ UNCHANGED judgement_order
    /\ UNCHANGED <<config, flow, awards_initialized, awards_by_team,
                   outcome, award_hist, due, idle_step, space_pressed,
                   line, lines_read, error_count, rx_alive, pre_freeze_map>>

\* The scoring loops of validate_and_transform over the judgement order, the
\* two boards, and the worker's terminal event: Finished, or Failed when the
\* scoring returns an error.
ScoreboardStage ==
    /\ stage = "scoring"
    /\ \E out \in ScoreBoards(state, judgement_order) :
          /\ state' = out.state
          /\ events' = Append(events,
                              IF out.result.ok
                              THEN ParserFinished(lines_read, error_count,
                                                  out.result.value)
                              ELSE ParserFailed(out.result.error))
          /\ stage' = StageAfter(out.result.ok)
    /\ judgement_order' = <<>>
    /\ UNCHANGED <<config, flow, awards_initialized, awards_by_team,
                   outcome, award_hist, due, idle_step, space_pressed,
                   line, lines_read, error_count, rx_alive, pre_freeze_map>>

\* The award screen upserts an award for one team under the next award id
\* (awards are entered by ascending team id).
UpsertAward(team_id) ==
    LET n == Cardinality(DOMAIN state.awards) IN
    /\ stage = "set_award"
    /\ n < MaxAwards
    /\ n > 0 => state.awards[n].team_ids[1] <= team_id
    /\ state' = [state EXCEPT !.awards = @ @@ ((n + 1) :>
                    [citation |-> Citations[(n % Len(Citations)) + 1],
                     team_ids |-> <<team_id>>])]
    /\ UNCHANGED <<config, stage, flow, awards_initialized, awards_by_team,
                   outcome, award_hist, due, idle_step, space_pressed>>
    /\ UNCHANGED feed_vars

\* The "Present" button with every group selected (the screen's default).
Present ==
    /\ stage = "set_award"
    /\ state' = apply_group_filter_for_presentation(state, DOMAIN state.groups)
    /\ stage' = "present"
    /\ UNCHANGED <<config, flow, awards_initialized, awards_by_team,
                   outcome, award_hist, due, idle_step, space_pressed>>
    /\ UNCHANGED feed_vars

\* The operator presses Space: the event waits for the next frame.
PressSpace ==
    /\ stage = "present"
    /\ ~space_pressed
    /\ space_pressed' = TRUE
    /\ UNCHANGED <<state, config, stage, flow, awards_initialized, awards_by_team,
                   outcome, award_hist, due, idle_step>>
    /\ UNCHANGED feed_vars

\* A frame of present::ui without a key press.
Frame ==
    /\ stage = "present"
    /\ ~space_pressed
    /\ awards_by_team' = ensure_awards_initialized(awards_initialized,
                                                   awards_by_team, state)
    /\ awards_initialized' = TRUE
    /\ flow' = sync_reveal_focus_on_enter(flow, leaderboard_pre_freeze)
    /\ UNCHANGED <<state, config, stage, outcome, award_hist, due, idle_step, space_pressed>>
    /\ UNCHANGED feed_vars

\* The award phases a step enters, appended to the history of their team:
\* the phase's tag and the citation list it carries.
HistAfter(hist, old_phase, new_phase) ==
    IF new_phase.tag \in {"PendingAward", "ShowAward"}
       /\ new_phase.tag # old_phase.tag
    THEN [hist EXCEPT ![new_phase.team_id] =
             Append(@, [tag |-> new_phase.tag, citations |-> new_phase.citations])]
    ELSE IF new_phase.tag = "PostAwardScroll" /\ old_phase.tag = "ShowAward"
    THEN [hist EXCEPT ![old_phase.team_id] =
             Append(@, [tag |-> new_phase.tag, citations |-> <<>>])]
    ELSE hist

\* Teams with a frozen cell on a board.
PendingTeams(board) ==
    {board[i].team_id : i \in {k \in 1..Len(board) : team_has_pending_freeze(board[k])}}

\* A frame of present::ui that consumes a Space key event: one step() of the
\* reveal.
Step ==
    /\ stage = "present"
    /\ space_pressed
    /\ space_pressed' = FALSE
    /\ LET awards0 == ensure_awards_initialized(awards_initialized,
                                                awards_by_team, state)
           flow0 == sync_reveal_focus_on_enter(flow, leaderboard_pre_freeze)
       IN
       /\ awards_initialized' = TRUE
       /\ IF leaderboard_pre_freeze = <<>>
          THEN /\ stage' = "panicked"
               /\ flow' = flow0
               /\ awards_by_team' = awards0
               /\ UNCHANGED <<state, outcome, award_hist, due, idle_step>>
          ELSE \E r \in advance_space_phase(flow0, leaderboard_pre_freeze,
                                            OrderedProblemIds(state), awards0) :
                 /\ flow' = r.flow
                 /\ state' = [state EXCEPT !.leaderboard_pre_freeze = r.board]
                 /\ awards_by_team' = r.awards_by_team
                 /\ outcome' = r.outcome
                 /\ award_hist' = HistAfter(award_hist, flow0.space_phase,
                                            r.flow.space_phase)
                 /\ due' = due \cup
                        ((PendingTeams(leaderboard_pre_freeze) \ PendingTeams(r.board))
                           \cap DOMAIN awards0)
                 /\ idle_step' = (flow0.space_phase.tag = "Finished")
                 /\ stage' = stage
    /\ UNCHANGED config
    /\ UNCHANGED feed_vars

Init ==
    /\ state = Header(RegularContest, OneDivision)
    /\ config = DefaultConfig
    /\ stage = "ingest"
    /\ flow = DefaultFlow
    /\ awards_initialized = FALSE
    /\ awards_by_team = <<>>
    /\ outcome = DefaultOutcome
    /\ award_hist = [t \in TeamIds |-> <<>>]
    /\ due = {}
    /\ idle_step = FALSE
    /\ space_pressed = FALSE
    /\ line = LastHeaderLine
    /\ lines_read = HeaderLines
    /\ error_count = 0
    /\ events = <<Started>>
    /\ rx_alive = TRUE
    /\ judgement_order = <<>>
    /\ pre_freeze_map = <<>>

Next ==
    \/ \E t \in TeamIds, p \in ProblemIds, time \in RevealTimes :
          IngestSubmission(t, p, time)
    \/ \E v \in RevealVerdicts : IngestJudgement(v)
    \/ EndOfFeed
    \/ ScoreboardStage
    \/ \E t \in TeamIds : UpsertAward(t)
    \/ Present
    \/ PressSpace
    \/ Frame
    \/ Step

Spec == Init /\ [][Next]_vars

\* Step is enabled exactly while a key event waits in stage "present" and
\* always consumes it, so weak fairness of Step is: again and again no key
\* event waits.
StepFairness == []<>(~space_pressed)

\* The reveal under repeated step() calls: the operator keeps pressing Space
\* and every key event is consumed by a frame.
SpecLive == Spec /\ WF_vars(PressSpace) /\ StepFairness

\* --------------------------------------------------- the scoreboard stage alone

\* Submission times of the scoreboard runs: two before start_time (one of them
\* before the early freeze), one in the contest, one late.
BoardTimes == {-150, -90, 90, 310}

InitBoard ==
    /\ state \in {Header(RegularContest, OneDivision),
                  Header(RegularContest, TwoDivisions),
                  Header(EarlyFreezeContest, OneDivision)}
    /\ config = DefaultConfig
    /\ stage = "ingest"
    /\ flow = DefaultFlow
    /\ awards_initialized = FALSE
    /\ awards_by_team = <<>>
    /\ outcome = DefaultOutcome
    /\ award_hist = [t \in TeamIds |-> <<>>]
    /\ due = {}
    /\ idle_step = FALSE
    /\ space_pressed = FALSE
    /\ line = LastHeaderLine
    /\ lines_read = HeaderLines
    /\ error_count = 0
    /\ events = <<Started>>
    /\ rx_alive = TRUE
    /\ judgement_order = <<>>
    /\ pre_freeze_map = <<>>

NextBoard ==
    \/ \E t \in TeamIds, p \in ProblemIds, time \in BoardTimes :
          IngestSubmission(t, p, time)
    \/ \E v \in Verdicts : IngestJudgement(v)
    \/ EndOfFeed
    \/ ScoreboardStage

SpecBoard == InitBoard /\ [][NextBoard]_vars

\* ------------------------------------------------------ the ingest worker alone

\* Besides its header block, its submissions and its judgements a feed holds
\* at most MaxOtherLines lines.
MaxOtherLines == 2

\* The value of `line` while the worker has read no line yet.
NoLine == [text |-> "none", type |-> "", data |-> None]

HeaderRead == IF state.contest = None THEN 0 ELSE HeaderLines
OtherLines == lines_read - HeaderRead - NumSubmissions - NumJudgements

\* Payload of the events the worker keeps no entity of.
Note == Payload(1, [note |-> "text"])

\* Lines other than the header's and the submissions' and judgements': the
\* empty line, text that is not JSON, an event of a type EventType lacks,
\* state, clarifications and persons events with data, and a submissions
\* event whose payload is no Submission.
OtherFeedLines ==
    {BlankLine, MalformedLine, EventLine("commentary", Some(Note)),
     EventLine("state", Some(Note)), EventLine("clarifications", Some(Note)),
     EventLine("persons", Some(Note)), EventLine("submissions", Some(BadPayload))}

\* The worker thread starts: it sends Started and opens the file.
WorkerStart(opened) ==
    /\ stage = "spawned"
    /\ events' = IF opened THEN Append(events, Started)
                 ELSE events \o <<Started, ParserFailed("open")>>
    /\ stage' = IF opened THEN "ingest" ELSE StageAfter(FALSE)
    /\ UNCHANGED <<state, config, flow, awards_initialized, awards_by_team,
                   outcome, award_hist, due, idle_step, space_pressed,
                   line, lines_read, error_count, rx_alive, judgement_order, pre_freeze_map>>

\* The read loop over the HeaderLines lines of the feed's header block: each
\* line is an event parse_event_line accepts.
IngestHeader ==
    /\ stage = "ingest"
    /\ state = NewContestState
    /\ state' = Header(RegularContest, OneDivision)
    /\ line' = LastHeaderLine
    /\ lines_read' = lines_read + HeaderLines
    /\ events' = events \o ProgressBetween(lines_read, lines_read + HeaderLines)
    /\ UNCHANGED <<config, stage, flow, awards_initialized, awards_by_team,
                   outcome, award_hist, due, idle_step, space_pressed,
                   error_count, rx_alive, judgement_order, pre_freeze_map>>

\* The read loop on one of the other lines.
IngestOther(text) ==
    /\ stage = "ingest"
    /\ OtherLines < MaxOtherLines
    /\ ReadLine(text)
    /\ UNCHANGED <<config, stage, flow, awards_initialized, awards_by_team,
                   outcome, award_hist, due, idle_step, space_pressed,
                   rx_alive, judgement_order, pre_freeze_map>>

\* The read loop on an Err(line_result): the worker sends Failed and returns.
ReadFailure ==
    /\ stage = "ingest"
    /\ events' = Append(events, ParserFailed("read"))
    /\ stage' = StageAfter(FALSE)
    /\ UNCHANGED <<state, config, flow, awards_initialized, awards_by_team,
                   outcome, award_hist, due, idle_step, space_pressed,
                   line, lines_read, error_count, rx_alive, judgement_order, pre_freeze_map>>

\* The load screen replaces or clears parser_receiver while the worker runs.
DropReceiver ==
    /\ stage \in {"spawned", "ingest", "scoring"}
    /\ rx_alive
    /\ rx_alive' = FALSE
    /\ UNCHANGED <<state, config, stage, flow, awards_initialized, awards_by_team,
                   outcome, award_hist, due, idle_step, space_pressed,
                   line, lines_read, error_count, events, judgement_order, pre_freeze_map>>

InitFeed ==
    /\ state = NewContestState
    /\ config = DefaultConfig
    /\ stage = "spawned"
    /\ flow = DefaultFlow
    /\ awards_initialized = FALSE
    /\ awards_by_team = <<>>
    /\ outcome = DefaultOutcome
    /\ award_hist = [t \in TeamIds |-> <<>>]
    /\ due = {}
    /\ idle_step = FALSE
    /\ space_pressed = FALSE
    /\ line = NoLine
    /\ lines_read = 0
    /\ error_count = 0
    /\ events = <<>>
    /\ rx_alive = TRUE
    /\ judgement_order = <<>>
    /\ pre_freeze_map = <<>>

NextFeed ==
    \/ \E opened \in BOOLEAN : WorkerStart(opened)
    \/ IngestHeader
    \/ \E text \in OtherFeedLines : IngestOther(text)
    \/ IngestSubmission(1, 1, 90)
    \/ IngestJudgement("AC")
    \/ ReadFailure
    \/ DropReceiver
    \/ EndOfFeed
    \/ ScoreboardStage

SpecFeed == InitFeed /\ [][NextFeed]_vars

\* ------------------------------------------- a contest with its own penalty

\* The regular contest with a penalty_time of 10 minutes in its contest event.
ShortPenaltyContest == [RegularContest EXCEPT !.penalty_time = 10]

\* The worker after the header block of a feed whose store is `store`.
AfterHeader(store) ==
    /\ state = store
    /\ config = DefaultConfig
    /\ stage = "ingest"
    /\ flow = DefaultFlow
    /\ awards_initialized = FALSE
    /\ awards_by_team = <<>>
    /\ outcome = DefaultOutcome
    /\ award_hist = [t \in TeamIds |-> <<>>]
    /\ due = {}
    /\ idle_step = FALSE
    /\ space_pressed = FALSE
    /\ line = LastHeaderLine
    /\ lines_read = HeaderLines
    /\ error_count = 0
    /\ events = <<Started>>
    /\ rx_alive = TRUE
    /\ judgement_order = <<>>
    /\ pre_freeze_map = <<>>

InitPenalty == AfterHeader(Header(ShortPenaltyContest, OneDivision))

SpecPenalty == InitPenalty /\ [][NextBoard]_vars

\* ------------------------------------------------------- re-judged submissions

\* A feed re-judges at most MaxRejudgements times.
MaxRejudgements == 1

\* A later `judgements` line for a submission that has a judgement already: a
\* re-judgement under a new judgement id, started a minute after the
\* submission. Judgement ids count up in feed order, and the feed lists the
\* re-judgements after the first judgements.
IngestRejudgement(submission_id, verdict) ==
    LET n == NumSubmissions IN
    /\ stage = "ingest"
    /\ submission_id \in DOMAIN state.submissions
    /\ NumJudgements >= n
    /\ NumJudgements < n + MaxRejudgements
    /\ ReadLine(EventLine("judgements", Some(Payload(NumJudgements + 1,
                    [submission_id |-> submission_id,
                     judgement_type_id |-> Some(verdict),
                     start_time |-> Some(Unwrap(state.submissions[submission_id].time) + 60)]))))
    /\ UNCHANGED <<config, stage, flow, awards_initialized, awards_by_team,
                   outcome, award_hist, due, idle_step, space_pressed,
                   rx_alive, judgement_order, pre_freeze_map>>

\* Teams and submission times of the re-judgement runs.
RejudgeTeams == {1, 2}
RejudgeTimes == {90, 310}

InitRejudge == AfterHeader(Header(RegularContest, OneDivision))

NextRejudge ==
    \/ \E t \in RejudgeTeams, time \in RejudgeTimes : IngestSubmission(t, 1, time)
    \/ \E v \in RevealVerdicts : IngestJudgement(v)
    \/ \E sid \in 1..MaxSubmissions, v \in RevealVerdicts : IngestRejudgement(sid, v)
    \/ EndOfFeed
    \/ ScoreboardStage

SpecRejudge == InitRejudge /\ [][NextRejudge]_vars

\* -------------------------------------------------- entity events of the feed

\* A feed of at most MaxEntityLines lines, each a contest event or an entity
\* event with a payload of its type.
MaxEntityLines == 3

\* The event types parse_event_line hands to handle_event.
EntityTypes ==
    {"judgement-types", "groups", "organizations", "teams", "accounts",
     "problems", "submissions", "judgements", "awards"}

\* The id of the entity the feed's events of a type carry.
EntityId(type) == IF type = "judgement-types" THEN "AC" ELSE 1

\* The entities the feed's events of a type carry: two versions of problem 1.
EntityValues(type) ==
    CASE type = "judgement-types" -> {JudgementTypeTable["AC"]}
      [] type = "groups" -> {Groups[1]}
      [] type = "teams" -> {[group_ids |-> <<1>>, organization_id |-> Some("org")]}
      [] type = "problems" -> {[ordinal |-> 1], [ordinal |-> 2]}
      [] type = "submissions" -> {[team_id |-> 1, problem_id |-> 1, time |-> Some(90)]}
      [] type = "judgements" -> {[submission_id |-> 1,
                                  judgement_type_id |-> Some("AC"),
                                  start_time |-> Some(90)]}
      [] type = "awards" -> {[citation |-> "Gold", team_ids |-> <<1>>]}
      [] OTHER -> {[note |-> "text"]}

\* The payload of the feed's contest event.
ContestPayload ==
    Payload(1, [start_time |-> Some(0), duration |-> 300,
                scoreboard_freeze_duration |-> 60, penalty_time |-> 20])

\* The read loop on a contest event.
IngestContest ==
    /\ stage = "ingest"
    /\ lines_read < MaxEntityLines
    /\ ReadLine(EventLine("contest", Some(ContestPayload)))
    /\ UNCHANGED <<config, stage, flow, awards_initialized, awards_by_team,
                   outcome, award_hist, due, idle_step, space_pressed,
                   rx_alive, judgement_order, pre_freeze_map>>

\* The read loop on an entity event.
IngestEntity(type, value) ==
    /\ stage = "ingest"
    /\ lines_read < MaxEntityLines
    /\ ReadLine(EventLine(type, Some(Payload(EntityId(type), value))))
    /\ UNCHANGED <<config, stage, flow, awards_initialized, awards_by_team,
                   outcome, award_hist, due, idle_step, space_pressed,
                   rx_alive, judgement_order, pre_freeze_map>>

\* The worker has sent Started and opened the file, and has read no line yet.
InitEntities ==
    /\ state = NewContestState
    /\ config = DefaultConfig
    /\ stage = "ingest"
    /\ flow = DefaultFlow
    /\ awards_initialized = FALSE
    /\ awards_by_team = <<>>
    /\ outcome = DefaultOutcome
    /\ award_hist = [t \in TeamIds |-> <<>>]
    /\ due = {}
    /\ idle_step = FALSE
    /\ space_pressed = FALSE
    /\ line = NoLine
    /\ lines_read = 0
    /\ error_count = 0
    /\ events = <<Started>>
    /\ rx_alive = TRUE
    /\ judgement_order = <<>>
    /\ pre_freeze_map = <<>>

NextEntities ==
    \/ IngestContest
    \/ \E type \in EntityTypes : \E value \in EntityValues(type) :
          IngestEntity(type, value)
    \/ EndOfFeed
    \/ ScoreboardStage

SpecEntities == InitEntities /\ [][NextEntities]_vars

\* ------------------------------------------- the transform and the validators

\* The filter lists of the configurations: none, team 1, and team 4, which
\* no teams event of the header defines.
FilterLists == {{}, {1}, {4}}

\* The team_group_map of the configurations: none, team 3 to group 2, team 3
\* to the absent group 3, and the absent team 4 to group 1.
GroupMaps == {<<>>, 3 :> 2, 3 :> 3, 4 :> 1}

Configs ==
    {[filter_team_submissions |-> f, team_group_map |-> m] :
        f \in FilterLists, m \in GroupMaps}

\* The group_ids of team 3 in the header: group 1, no group, or the absent
\* group 3.
GroupLists == {<<1>>, <<>>, <<3>>}

\* A contest event without start_time.
UntimedContest == ParseContest(None, 300, 60)

\* The stores after the header block.
TransformStores ==
    {[Header(contest, OneDivision) EXCEPT !.teams[3].group_ids = group_ids] :
        contest \in {RegularContest, UntimedContest}, group_ids \in GroupLists}

\* The teams of the submissions: team 1 and the undefined team 4.
TransformTeams == {1, 4}

InitTransform ==
    /\ state \in TransformStores
    /\ config \in Configs
    /\ stage = "ingest"
    /\ flow = DefaultFlow
    /\ awards_initialized = FALSE
    /\ awards_by_team = <<>>
    /\ outcome = DefaultOutcome
    /\ award_hist = [t \in TeamIds |-> <<>>]
    /\ due = {}
    /\ idle_step = FALSE
    /\ space_pressed = FALSE
    /\ line = LastHeaderLine
    /\ lines_read = HeaderLines
    /\ error_count = 0
    /\ events = <<Started>>
    /\ rx_alive = TRUE
    /\ judgement_order = <<>>
    /\ pre_freeze_map = <<>>

NextTransform ==
    \/ \E t \in TransformTeams : IngestSubmission(t, 1, 90)
    \/ IngestJudgement("AC")
    \/ EndOfFeed
    \/ ScoreboardStage

SpecTransform == InitTransform /\ [][NextTransform]_vars

\* ------------------------------------------------- submissions without a time

\* A `submissions` line whose time is null.
IngestUntimedSubmission(team_id, problem_id) ==
    LET n == NumSubmissions IN
    /\ stage = "ingest"
    /\ n < MaxSubmissions
    /\ NumJudgements = n
    /\ state.contest # None
    /\ ReadLine(EventLine("submissions", Some(Payload(n + 1,
                    [team_id |-> team_id, problem_id |-> problem_id, time |-> None]))))
    /\ UNCHANGED <<config, stage, flow, awards_initialized, awards_by_team,
                   outcome, award_hist, due, idle_step, space_pressed,
                   rx_alive, judgement_order, pre_freeze_map>>

\* A `judgements` line for the latest submission with its own start_time,
\* which may be null.
IngestStartedJudgement(verdict, start_time) ==
    LET n == NumSubmissions IN
    /\ stage = "ingest"
    /\ NumJudgements = n - 1
    /\ ReadLine(EventLine("judgements", Some(Payload(n,
                    [submission_id |-> n,
                     judgement_type_id |-> Some(verdict),
                     start_time |-> start_time]))))
    /\ UNCHANGED <<config, stage, flow, awards_initialized, awards_by_team,
                   outcome, award_hist, due, idle_step, space_pressed,
                   rx_alive, judgement_order, pre_freeze_map>>

\* The start_time of the judgements: null, before the freeze, in the freeze.
StartTimes == {None, Some(90), Some(310)}

NextUntimed ==
    \/ \E t \in RejudgeTeams : IngestUntimedSubmission(t, 1)
    \/ \E v \in RevealVerdicts, start_time \in StartTimes :
          IngestStartedJudgement(v, start_time)
    \/ EndOfFeed
    \/ ScoreboardStage

SpecUntimed == InitRejudge /\ [][NextUntimed]_vars

\* ------------------------------------------- the scoring loop, step by step

\* A `submissions` line whose time is later than that of every submission
\* before it.
IngestLaterSubmission(team_id, problem_id, time) ==
    /\ NumSubmissions > 0 => time > Unwrap(state.submissions[NumSubmissions].time)
    /\ IngestSubmission(team_id, problem_id, time)

\* The judgement_type_id of the judgements: a verdict of the contest's table,
\* the id XX that the table lacks, or null.
VerdictIds == {Some("AC"), Some("WA"), Some("CE"), Some("XX"), None}

\* A `judgements` line for the latest submission whose judgement_type_id may
\* be null or unknown.
IngestVerdict(judgement_type_id) ==
    LET n == NumSubmissions IN
    /\ stage = "ingest"
    /\ NumJudgements = n - 1
    /\ ReadLine(EventLine("judgements", Some(Payload(n,
                    [submission_id |-> n,
                     judgement_type_id |-> judgement_type_id,
                     start_time |-> state.submissions[n].time]))))
    /\ UNCHANGED <<config, stage, flow, awards_initialized, awards_by_team,
                   outcome, award_hist, due, idle_step, space_pressed,
                   rx_alive, judgement_order, pre_freeze_map>>

\* validate_and_transform after build_judgement_order: the initial statuses
\* of the first scoring loop.
BeginScoring ==
    LET init == build_initial_team_status_map(state) IN
    /\ stage = "scoring"
    /\ IF init.ok
       THEN /\ pre_freeze_map' = init.value
            /\ stage' = "scoring_loop"
            /\ UNCHANGED <<events, judgement_order>>
       ELSE /\ events' = Append(events, ParserFailed(init.error))
            /\ stage' = StageAfter(FALSE)
            /\ judgement_order' = <<>>
            /\ UNCHANGED pre_freeze_map
    /\ UNCHANGED <<state, config, flow, awards_initialized, awards_by_team,
                   outcome, award_hist, due, idle_step, space_pressed,
                   line, lines_read, error_count, rx_alive>>

\* One iteration of the first scoring loop of validate_and_transform, on the
\* next judgement of the order.
ScoreJudgement ==
    LET jid == Head(judgement_order)
        judgement == state.judgements[jid]
        contest == Unwrap(state.contest)
        r == IF judgement.submission_id \notin DOMAIN state.submissions
             THEN Ok(pre_freeze_map)
             ELSE IF state.submissions[judgement.submission_id].time = None
                     /\ judgement.start_time = None
             THEN Err("UnknownSubmissionTime")
             ELSE apply_judgement_to_status(state, pre_freeze_map, jid,
                                            Unwrap(contest.start_time),
                                            Unwrap(contest.scoreboard_freeze_time))
    IN
    /\ stage = "scoring_loop"
    /\ judgement_order # <<>>
    /\ IF r.ok
       THEN /\ pre_freeze_map' = r.value
            /\ judgement_order' = Tail(judgement_order)
            /\ UNCHANGED <<events, stage>>
       ELSE /\ events' = Append(events, ParserFailed(r.error))
            /\ stage' = StageAfter(FALSE)
            /\ judgement_order' = <<>>
            /\ pre_freeze_map' = <<>>
    /\ UNCHANGED <<state, config, flow, awards_initialized, awards_by_team,
                   outcome, award_hist, due, idle_step, space_pressed,
                   line, lines_read, error_count, rx_alive>>

\* The end of the first scoring loop: the pre-freeze board of its statuses,
\* the finalized board of compute_finalized_leaderboard, and the worker's
\* terminal event.
FinishScoring ==
    /\ stage = "scoring_loop"
    /\ judgement_order = <<>>
    /\ \E pre_board \in map_to_sorted_leaderboard(pre_freeze_map) :
       \E order \in build_judgement_order(state) :
          LET st2 == [state EXCEPT !.leaderboard_pre_freeze = pre_board]
              fin == compute_finalized_leaderboard(st2, order)
          IN IF fin.ok
             THEN \E fin_board \in fin.value :
                    /\ state' = [st2 EXCEPT !.leaderboard_finalized = fin_board]
                    /\ events' = Append(events,
                                        ParserFinished(lines_read, error_count,
                                           {jid \in DOMAIN state.judgements :
                                               state.judgements[jid].submission_id
                                                  \notin DOMAIN state.submissions}))
                    /\ stage' = StageAfter(TRUE)
             ELSE /\ state' = st2
                  /\ events' = Append(events, ParserFailed(fin.error))
                  /\ stage' = StageAfter(FALSE)
    /\ pre_freeze_map' = <<>>
    /\ UNCHANGED <<config, flow, awards_initialized, awards_by_team,
                   outcome, award_hist, due, idle_step, space_pressed,
                   line, lines_read, error_count, rx_alive, judgement_order>>

NextLoop ==
    \/ \E p \in ProblemIds, time \in RevealTimes : IngestLaterSubmission(1, p, time)
    \/ \E v \in VerdictIds : IngestVerdict(v)
    \/ EndOfFeed
    \/ BeginScoring
    \/ ScoreJudgement
    \/ FinishScoring

SpecLoop == InitRejudge /\ [][NextLoop]_vars

\* ------------------------------------------------- the totals of the two boards

\* The scoreboard stage on the feeds of a single division, with the freeze
\* inside the contest or before its start.
InitTotals ==
    \/ AfterHeader(Header(RegularContest, OneDivision))
    \/ AfterHeader(Header(EarlyFreezeContest, OneDivision))

SpecTotals == InitTotals /\ [][NextBoard]_vars

\* ------------------------------------------------------------ the reveal alone

\* Teams 1 and 2 submit before the freeze and inside it: team 3 stays without
\* a submission.
NextReveal ==
    \/ \E t \in RejudgeTeams, p \in ProblemIds, time \in RejudgeTimes :
          IngestSubmission(t, p, time)
    \/ \E v \in RevealVerdicts : IngestJudgement(v)
    \/ EndOfFeed
    \/ ScoreboardStage
    \/ \E t \in TeamIds : UpsertAward(t)
    \/ Present
    \/ PressSpace
    \/ Frame
    \/ Step

SpecReveal == InitRejudge /\ [][NextReveal]_vars

\* ------------------------------------- judgements of missing submissions

\* A `judgements` line of the feed, after the judgements of the stored
\* submissions, whose submission_id matches no submission of the feed.
IngestDanglingJudgement(start_time) ==
    LET n == NumSubmissions IN
    /\ stage = "ingest"
    /\ NumJudgements = n
    /\ state.contest # None
    /\ ReadLine(EventLine("judgements", Some(Payload(n + 1,
                    [submission_id |-> n + 1,
                     judgement_type_id |-> Some("AC"),
                     start_time |-> start_time]))))
    /\ UNCHANGED <<config, stage, flow, awards_initialized, awards_by_team,
                   outcome, award_hist, due, idle_step, space_pressed,
                   rx_alive, judgement_order, pre_freeze_map>>

\* The configurations: no filter, or the undefined team 4 filtered out.
InitDangling ==
    /\ state = Header(RegularContest, OneDivision)
    /\ config \in {[filter_team_submissions |-> f, team_group_map |-> <<>>] :
                      f \in {{}, {4}}}
    /\ stage = "ingest"
    /\ flow = DefaultFlow
    /\ awards_initialized = FALSE
    /\ awards_by_team = <<>>
    /\ outcome = DefaultOutcome
    /\ award_hist = [t \in TeamIds |-> <<>>]
    /\ due = {}
    /\ idle_step = FALSE
    /\ space_pressed = FALSE
    /\ line = LastHeaderLine
    /\ lines_read = HeaderLines
    /\ error_count = 0
    /\ events = <<Started>>
    /\ rx_alive = TRUE
    /\ judgement_order = <<>>
    /\ pre_freeze_map = <<>>

NextDangling ==
    \/ \E t \in TransformTeams, p \in ProblemIds, time \in RejudgeTimes :
          IngestSubmission(t, p, time)
    \/ \E v \in RevealVerdicts : IngestJudgement(v)
    \/ \E start_time \in StartTimes : IngestDanglingJudgement(start_time)
    \/ EndOfFeed
    \/ ScoreboardStage

SpecDangling == InitDangling /\ [][NextDangling]_vars

\* ------------------------------------------------------------- the properties

Phase == flow.space_phase

\* The reveal is in phase Finished.
AtFinished == stage = "present" /\ Phase.tag = "Finished"

\* The scoreboard stage has succeeded and both boards are stored.
Scored == stage = "set_award"

\* The (team_id, total_points, total_penalty) of each row of a board.
Rows(board) ==
    [i \in 1..Len(board) |->
        <<board[i].team_id, board[i].total_points, board[i].total_penalty>>]

\* The row of team t on a board that lists every team once.
RowOf(board, t) == board[CHOOSE i \in 1..Len(board) : board[i].team_id = t]

\* The contest of the store.
TheContest == Unwrap(state.contest)

\* Two rows with the same sortorder, points, penalty and last accept time.
SameRankKey(a, b) ==
    /\ a.sortorder = b.sortorder
    /\ a.total_points = b.total_points
    /\ a.total_penalty = b.total_penalty
    /\ a.last_ac_time = b.last_ac_time

\* C1: once the reveal has run to Finished, leaderboard_pre_freeze has the same
\* (team_id, total_points, total_penalty), row by row, as leaderboard_finalized.
RevealRefinesFinalized ==
    AtFinished => Rows(leaderboard_pre_freeze) = Rows(leaderboard_finalized)

\* The full citation list of a team, as ensure_awards_initialized builds it.
FullCitations(t) == ensure_awards_initialized(FALSE, <<>>, state)[t]

\* PendingAward, ShowAward with the list, PostAwardScroll.
AwardRoute(citations) ==
    <<[tag |-> "PendingAward", citations |-> citations],
      [tag |-> "ShowAward", citations |-> citations],
      [tag |-> "PostAwardScroll", citations |-> <<>>]>>

\* C2: a team whose last frozen cell a step resolved while the map held an
\* entry for it has been through PendingAward, ShowAward with its full citation
\* list and PostAwardScroll by the time the phase is Finished.
AwardFollowsLastCell ==
    AtFinished => \A t \in due : award_hist[t] = AwardRoute(FullCitations(t))

\* The steps of a team's award history that entered ShowAward.
Shown(t) == {i \in 1..Len(award_hist[t]) : award_hist[t][i].tag = "ShowAward"}

\* C3: the reveal enters ShowAward at most once per team, and a team whose
\* citation list was taken has no entry in awards_by_team any more.
AwardSurfacedAtMostOnce ==
    \A t \in TeamIds :
        /\ Cardinality(Shown(t)) <= 1
        /\ award_hist[t] # <<>> => t \notin DOMAIN awards_by_team

\* An award was shown and the reveal went on to Finished.
AwardWasShown == AtFinished /\ \E t \in TeamIds : Shown(t) # {}

\* C4: under repeated steps the reveal reaches Finished.
RevealTerminates == (stage = "present") ~> AtFinished

\* Finished was reached through the reveal of a solved frozen cell and an award.
FinishedAfterReveal ==
    /\ AtFinished
    /\ \E t \in TeamIds : award_hist[t] # <<>>
    /\ \E i \in 1..Len(leaderboard_pre_freeze) :
         \E p \in DOMAIN leaderboard_pre_freeze[i].problem_stats :
            LET stat == leaderboard_pre_freeze[i].problem_stats[p] IN
            /\ stat.solved
            /\ Unwrap(stat.first_ac_time) > Unwrap(TheContest.scoreboard_freeze_time)

\* C5: a step taken in phase Finished leaves the phase, the board,
\* awards_by_team and current_reveal_index as they are and returns the default
\* outcome (no scroll index, no row reorder).
FinishedIsAbsorbing ==
    [][(AtFinished /\ Step) =>
          /\ flow'.space_phase = flow.space_phase
          /\ flow'.current_reveal_index = flow.current_reveal_index
          /\ state'.leaderboard_pre_freeze = state.leaderboard_pre_freeze
          /\ awards_by_team' = awards_by_team
          /\ outcome' = DefaultOutcome]_vars

\* A step has been taken in phase Finished.
SteppedWhileFinished == AtFinished /\ idle_step

\* C6: in phase Finished no ProblemStat on the board has
\* attempted_during_freeze set.
NothingFrozenWhenFinished == AtFinished => ~AnyPending(leaderboard_pre_freeze)

\* Finished after the reveal resolved the last frozen cell of an awarded team.
FinishedAfterLastCell == AtFinished /\ due # {}

\* C7: after the scoreboard stage every team has at least as many points on
\* the finalized board as on the pre-freeze board.
FinalizedPointsNotLower ==
    Scored => \A t \in TeamIds :
        RowOf(leaderboard_finalized, t).total_points
            >= RowOf(leaderboard_pre_freeze, t).total_points

\* A team has more finalized points than pre-freeze points.
FrozenSolveAddsPoints ==
    Scored /\ \E t \in TeamIds :
        RowOf(leaderboard_finalized, t).total_points
            > RowOf(leaderboard_pre_freeze, t).total_points

\* For every team the finalized penalty is at least the pre-freeze penalty.
PenaltyNotLower ==
    \A t \in TeamIds :
        RowOf(leaderboard_finalized, t).total_penalty
            >= RowOf(leaderboard_pre_freeze, t).total_penalty

\* C8 as stated: after the scoreboard stage, for any feed, every team's
\* finalized penalty is at least its pre-freeze penalty.
FinalizedPenaltyNotLower == Scored => PenaltyNotLower

\* No submission made after the freeze time precedes the start time.
NoFrozenSubmissionBeforeStart ==
    \A sid \in DOMAIN state.submissions :
        LET time == Unwrap(state.submissions[sid].time) IN
        time > Unwrap(TheContest.scoreboard_freeze_time)
            => time >= Unwrap(TheContest.start_time)

\* C8 amended: after the scoreboard stage, for any feed in which no submission
\* made after the freeze time precedes the start time, every team's finalized
\* penalty is at least its pre-freeze penalty.
FinalizedPenaltyNotLowerFromStart ==
    (Scored /\ NoFrozenSubmissionBeforeStart) => PenaltyNotLower

\* A feed whose freeze precedes the start, with a submission before the start
\* and none between the freeze and the start, and a team whose finalized
\* penalty is larger than its pre-freeze penalty.
LargerPenaltyInEarlyFreeze ==
    /\ Scored
    /\ NoFrozenSubmissionBeforeStart
    /\ Unwrap(TheContest.scoreboard_freeze_time) < Unwrap(TheContest.start_time)
    /\ \E sid \in DOMAIN state.submissions :
          Unwrap(state.submissions[sid].time) < Unwrap(TheContest.start_time)
    /\ \E t \in TeamIds :
          RowOf(leaderboard_finalized, t).total_penalty
              > RowOf(leaderboard_pre_freeze, t).total_penalty

\* The statuses of both boards.
BoardStatuses == Range(leaderboard_pre_freeze) \cup Range(leaderboard_finalized)

\* Ordering::reverse
Reverse(o) == IF o = "Less" THEN "Greater" ELSE IF o = "Greater" THEN "Less" ELSE o

\* C9: on the statuses the scoreboard stage builds, cmp is a total order:
\* cmp(a, a) is Equal, cmp(a, b) is Equal only for rows of one team,
\* cmp(a, b) is the reverse of cmp(b, a), and cmp is transitive.
CmpIsTotalOrder ==
    Scored => \A a, b \in BoardStatuses :
        /\ cmp(a, a) = "Equal"
        /\ cmp(a, b) \in {"Less", "Equal", "Greater"}
        /\ cmp(a, b) = "Equal" => a.team_id = b.team_id
        /\ cmp(a, b) = Reverse(cmp(b, a))
        /\ \A c \in BoardStatuses :
              (cmp(a, b) # "Greater" /\ cmp(b, c) # "Greater")
                  => cmp(a, c) # "Greater"

\* Rows with the same rank key appear in ascending team_id order.
TiesByTeamId(board) ==
    \A i, k \in 1..Len(board) :
        (i < k /\ SameRankKey(board[i], board[k]))
            => board[i].team_id < board[k].team_id

\* C10: both boards list teams with the same sortorder, points, penalty and
\* last accept time in ascending team_id order.
TiedTeamsInIdOrder ==
    Scored => TiesByTeamId(leaderboard_pre_freeze)
              /\ TiesByTeamId(leaderboard_finalized)

\* The problem stats of the statuses of both boards.
BoardStats ==
    UNION {{ts.problem_stats[p] : p \in DOMAIN ts.problem_stats} : ts \in BoardStatuses}

\* The penalty of a solved stat by the contest's own penalty_time.
ContestPenalty(ps) ==
    NumMinutes(Unwrap(ps.first_ac_time) - Unwrap(TheContest.start_time))
        + (ps.submissions_before_solved - 1) * TheContest.penalty_time

\* C11: the penalty stored on a solved stat is the accepted submission's
\* contest time in minutes plus (submissions_before_solved - 1) times the
\* contest's own penalty_time, whatever that value is.
PenaltyUsesContestPenaltyTime ==
    Scored => \A ps \in BoardStats : ps.solved => ps.penalty = ContestPenalty(ps)

\* The submissions of the store that a judgement accepts.
AcceptedSubmissions ==
    {state.judgements[j].submission_id : j \in
        {k \in DOMAIN state.judgements :
            /\ state.judgements[k].submission_id \in DOMAIN state.submissions
            /\ state.judgements[k].judgement_type_id # None
            /\ Unwrap(state.judgements[k].judgement_type_id) \in DOMAIN state.judgement_types
            /\ state.judgement_types[Unwrap(state.judgements[k].judgement_type_id)].solved}}

FreezeTime == Unwrap(TheContest.scoreboard_freeze_time)

\* The stat of a submission's (team, problem) on a status is solved at or
\* before the freeze and is not marked as attempted during the freeze.
SolvedBeforeFreeze(ts, sub) ==
    /\ sub.problem_id \in DOMAIN ts.problem_stats
    /\ ts.problem_stats[sub.problem_id].solved
    /\ ts.problem_stats[sub.problem_id].first_ac_time # None
    /\ Unwrap(ts.problem_stats[sub.problem_id].first_ac_time) <= FreezeTime
    /\ ~ts.problem_stats[sub.problem_id].attempted_during_freeze

\* C12: after the scoreboard stage, on both boards, the stat of every (team,
\* problem) with an accepted submission at or before freeze_time is solved with
\* first_ac_time <= freeze_time and attempted_during_freeze = false, whatever
\* other judgements of that (team, problem) were processed.
SolvedBeforeFreezeStays ==
    Scored => \A sid \in AcceptedSubmissions : \A ts \in BoardStatuses :
        (/\ ts.team_id = state.submissions[sid].team_id
         /\ Unwrap(state.submissions[sid].time) <= FreezeTime)
            => SolvedBeforeFreeze(ts, state.submissions[sid])

\* A (team, problem) accepted at or before the freeze has a later submission
\* inside the freeze.
SubmittedAgainInFreeze ==
    Scored /\ \E sid \in AcceptedSubmissions, later \in DOMAIN state.submissions :
        /\ Unwrap(state.submissions[sid].time) <= FreezeTime
        /\ state.submissions[later].team_id = state.submissions[sid].team_id
        /\ state.submissions[later].problem_id = state.submissions[sid].problem_id
        /\ Unwrap(state.submissions[later].time) > FreezeTime

\* C13: the scoreboard stage applies the judgements in non-decreasing scoring
\* time order, and judgements with equal scoring time in the order in which
\* the feed listed them (judgement ids count up in feed order).
AppliedInFeedOrder ==
    stage = "scoring" =>
        \A i, k \in 1..Len(judgement_order) :
            i < k =>
                /\ OptLeq(ScoringTime(state, judgement_order[i]),
                          ScoringTime(state, judgement_order[k]))
                /\ ScoringTime(state, judgement_order[i])
                      = ScoringTime(state, judgement_order[k])
                   => judgement_order[i] < judgement_order[k]

\* Whether a judgement's verdict is a known verdict that solves.
Solves(j) ==
    /\ j.judgement_type_id # None
    /\ Unwrap(j.judgement_type_id) \in DOMAIN state.judgement_types
    /\ state.judgement_types[Unwrap(j.judgement_type_id)].solved

\* The re-judgements with a non-solved verdict of a submission that an
\* earlier judgement of the feed accepted.
FlippedRejudgements ==
    {j2 \in DOMAIN state.judgements :
        /\ ~Solves(state.judgements[j2])
        /\ \E j1 \in DOMAIN state.judgements :
              /\ j1 < j2
              /\ state.judgements[j1].submission_id = state.judgements[j2].submission_id
              /\ Solves(state.judgements[j1])}

\* The store without those re-judgements, before scoring.
StoreWithoutFlipped ==
    [state EXCEPT !.judgements = Restrict(@, (DOMAIN @) \ FlippedRejudgements),
                  !.leaderboard_pre_freeze = <<>>,
                  !.leaderboard_finalized = <<>>]

\* The stats that team t can end with for problem p on the finalized board
\* when the scoreboard stage runs without those re-judgements.
StatsWithoutFlipped(t, p) ==
    {RowOf(out.state.leaderboard_finalized, t).problem_stats[p] :
        out \in {o \in validate_and_transform(StoreWithoutFlipped, config) : o.result.ok}}

\* C14: a re-judgement with a non-solved verdict of a submission that an
\* earlier judgement accepted is ignored: on both boards the stat of the
\* submission's (team, problem) is solved, with submissions_before_solved,
\* penalty and first_ac_time as the scoreboard stage stores them without the
\* re-judgement.
FlippedRejudgementIgnored ==
    Scored => \A j \in FlippedRejudgements : \A ts \in BoardStatuses :
        LET sub == state.submissions[state.judgements[j].submission_id] IN
        ts.team_id = sub.team_id =>
            /\ sub.problem_id \in DOMAIN ts.problem_stats
            /\ ts.problem_stats[sub.problem_id].solved
            /\ \E ps \in StatsWithoutFlipped(sub.team_id, sub.problem_id) :
                  /\ ts.problem_stats[sub.problem_id].submissions_before_solved
                        = ps.submissions_before_solved
                  /\ ts.problem_stats[sub.problem_id].penalty = ps.penalty
                  /\ ts.problem_stats[sub.problem_id].first_ac_time = ps.first_ac_time

\* The step is an iteration of the worker's read loop on one line.
ReadsOneLine == lines_read' = lines_read + 1

\* The positions of the LineError events in a sequence of events.
LineErrorPositions(evs) == {i \in 1..Len(evs) : evs[i].type = "LineError"}

\* The step sends no LineError, counts no error and leaves the store alone.
LineSkipped ==
    /\ LineErrorPositions(events') = LineErrorPositions(events)
    /\ error_count' = error_count
    /\ state' = state

\* C15: a blank line of the feed is skipped: reading it sends no LineError,
\* does not increase error_count and leaves the store unchanged.
BlankLineSkipped ==
    [][(ReadsOneLine /\ line'.text = "blank") => LineSkipped]_vars

\* C16: an event of type state, clarifications or persons that carries data is
\* accepted and ignored: reading it sends no LineError, does not increase
\* error_count and changes no mapping of the store.
IgnoredEventSkipped ==
    [][(/\ ReadsOneLine
        /\ line'.text = "event"
        /\ line'.type \in {"state", "clarifications", "persons"}
        /\ line'.data # None) => LineSkipped]_vars

\* The worker's run has ended.
WorkerDone == stage \notin {"spawned", "ingest", "scoring"}

LastEvent == events[Len(events)]

\* C17: when line errors were counted, the scoreboard stage is not invoked:
\* the worker never enters the scoring loops, no board is computed, and the
\* run ends with Finished (or with the Failed of a read failure), never with
\* the Failed of a validator or of the scoring.
ScoringSkippedAfterLineErrors ==
    error_count > 0 =>
        /\ stage # "scoring"
        /\ state.leaderboard_pre_freeze = <<>>
        /\ state.leaderboard_finalized = <<>>
        /\ WorkerDone =>
              \/ LastEvent.type = "Finished"
              \/ LastEvent.type = "Failed" /\ LastEvent.message = "read"

\* C18: once the receiver is dropped the worker stops at the line boundary: it
\* parses no further line into the store and does not start or continue the
\* transform and the scoring.
WorkerStopsAfterDisconnect ==
    [][(~rx_alive) =>
          /\ lines_read' = lines_read
          /\ state' = state
          /\ stage' # "scoring"
          /\ judgement_order' = judgement_order]_vars

\* The positions of the terminal events in the sequence of events.
TerminalPositions == {i \in 1..Len(events) : events[i].type \in {"Finished", "Failed"}}

\* C19: the worker's first event is Started; while it runs it has sent no
\* terminal event; when its run has ended it has sent exactly one terminal
\* event, Finished or Failed, and that is its last event (so nothing follows
\* it); and Finished is the terminal event only of a run whose validators and
\* scoring succeeded.
OneTerminalEventLast ==
    /\ stage = "spawned" => events = <<>>
    /\ stage # "spawned" => events # <<>> /\ events[1].type = "Started"
    /\ ~WorkerDone => TerminalPositions = {}
    /\ WorkerDone => TerminalPositions = {Len(events)}
    /\ (WorkerDone /\ LastEvent.type = "Finished") =>
          /\ transform_and_validate(state, config).result.ok
          /\ Len(leaderboard_finalized) = Cardinality(DOMAIN state.teams)

\* A run with a LineError and a Progress event has ended with Failed.
FailedAfterProgress ==
    /\ WorkerDone
    /\ LastEvent.type = "Failed"
    /\ LineErrorPositions(events) # {}
    /\ \E i \in 1..Len(events) : events[i].type = "Progress"

\* A line that fails to decode: text that is not the JSON of an event of a
\* known type, or an event whose payload does not deserialize.
FailsToDecode(text) ==
    \/ ~DecodesAsEvent(text)
    \/ text.data # None /\ ~Unwrap(text.data).valid

\* Every Finished event reports the number of LineError events sent.
FinishedCountsLineErrors(evs) ==
    \A i \in 1..Len(evs) :
        evs[i].type = "Finished"
            => evs[i].error_count = Cardinality(LineErrorPositions(evs))

\* C20: a line that fails to decode does not abort ingest: the worker sends
\* exactly one LineError, which carries the line's number, counts one error,
\* leaves the store alone and stays in its read loop; and the error_count of
\* Finished is the number of LineError events sent.
BadLineReportedOnce ==
    [][/\ (ReadsOneLine /\ FailsToDecode(line')) =>
            /\ stage' = "ingest"
            /\ state' = state
            /\ error_count' = error_count + 1
            /\ Len(events') > Len(events)
            /\ events'[Len(events) + 1].type = "LineError"
            /\ events'[Len(events) + 1].line_no = lines_read'
            /\ Cardinality(LineErrorPositions(events'))
                  = Cardinality(LineErrorPositions(events)) + 1
       /\ FinishedCountsLineErrors(events')]_vars

\* A run has ended with Finished after a line error, and the line read last,
\* after the bad line, is a judgement that is in the store.
LaterLineStoredAfterBadLine ==
    /\ WorkerDone
    /\ LastEvent.type = "Finished"
    /\ LastEvent.error_count > 0
    /\ line.text = "event" /\ line.type = "judgements"
    /\ NumJudgements > 0
    /\ \E i \in LineErrorPositions(events) :
          events[i].line_no > HeaderLines /\ events[i].line_no < lines_read

\* The step reads an entity event that carries data.
ReadsEntityEvent ==
    /\ ReadsOneLine
    /\ line'.text = "event"
    /\ line'.type \in EntityTypes
    /\ line'.data # None

\* The step sends exactly one event, the LineError of the line just read that
\* says the contest is not defined yet, and counts it.
RejectedBeforeContest ==
    /\ Len(events') = Len(events) + 1
    /\ SubSeq(events', 1, Len(events)) = events
    /\ events'[Len(events')].type = "LineError"
    /\ events'[Len(events')].line_no = lines_read'
    /\ events'[Len(events')].message = "contest not defined yet"
    /\ error_count' = error_count + 1

\* The step stores the entity of the line just read under its id in the
\* mapping of the event's type, replacing the entity stored under that id, and
\* changes nothing else in the store.
UpsertedById ==
    LET data == Unwrap(line'.data)
        field == StoreField(line'.type)
    IN
    /\ events' = events
    /\ error_count' = error_count
    /\ IF field = "none" THEN state' = state
       ELSE /\ DOMAIN state'[field] = DOMAIN state[field] \cup {data.id}
            /\ state'[field][data.id] = data.value
            /\ \A k \in DOMAIN state[field] \ {data.id} :
                  state'[field][k] = state[field][k]
            /\ \A f \in DOMAIN state \ {field} : state'[f] = state[f]

Transforms == stage = "ingest" /\ stage' # "ingest"

\* The submissions of the store whose team is not in the filter list, and the
\* judgements of the store that reference no submission of a filtered team.
KeptSubmissions ==
    {sid \in DOMAIN state.submissions :
        state.submissions[sid].team_id \notin config.filter_team_submissions}
KeptJudgements ==
    {jid \in DOMAIN state.judgements :
        state.judgements[jid].submission_id
            \notin (DOMAIN state.submissions \ KeptSubmissions)}

\* The rows of both boards of the store.
BoardRows ==
    {state.leaderboard_pre_freeze[i] : i \in 1..Len(state.leaderboard_pre_freeze)}
    \cup {state.leaderboard_finalized[i] : i \in 1..Len(state.leaderboard_finalized)}

\* C22: the transform removes exactly the submissions of the filtered teams
\* and the judgements that reference them and changes no other submission or
\* judgement; the unjudged-submission failure is only raised for a submission
\* that is kept; and a filtered team has a row on a board only if a teams event
\* defined it, and that row has zero points and zero penalty.
FilterRemovesTeamSubmissions ==
    /\ [][Transforms =>
            /\ DOMAIN state'.submissions = KeptSubmissions
            /\ \A sid \in KeptSubmissions :
                  state'.submissions[sid] = state.submissions[sid]
            /\ DOMAIN state'.judgements = KeptJudgements
            /\ \A jid \in KeptJudgements :
                  state'.judgements[jid] = state.judgements[jid]
            /\ (/\ events' # events
                /\ events'[Len(events')].type = "Failed"
                /\ events'[Len(events')].message = "UnjudgedSubmission")
                  => \E sid \in KeptSubmissions :
                        \A jid \in DOMAIN state.judgements :
                           state.judgements[jid].submission_id # sid]_vars
    /\ [](\A row \in BoardRows :
             row.team_id \in config.filter_team_submissions =>
                /\ row.team_id \in DOMAIN state.teams
                /\ row.total_points = 0
                /\ row.total_penalty = 0)

\* Team 1 is filtered, the last line of the feed was a submission of team 1
\* that no judgement followed, and the run ended with Finished and team 1 on
\* the finalized board without points.
FilteredUnjudgedSubmissionPasses ==
    /\ Scored
    /\ config.filter_team_submissions = {1}
    /\ line.type = "submissions"
    /\ Unwrap(line.data).value.team_id = 1
    /\ LastEvent.type = "Finished"
    /\ state.submissions = <<>>
    /\ RowOf(state.leaderboard_finalized, 1).total_points = 0

\* Every entry of team_group_map names a team and a group of the store.
RemapEntriesValid ==
    \A t \in DOMAIN config.team_group_map :
        t \in DOMAIN state.teams /\ config.team_group_map[t] \in DOMAIN state.groups

\* C23: when every entry of team_group_map names an existing team and an
\* existing group, the transform sets each mapped team's group_ids to the
\* single mapped group and leaves the other teams unchanged; when an entry
\* names an absent team or an absent group, the run ends with Failed
\* (InvalidRemap), without Finished and without a board.
RemapAppliedOrFails ==
    [][Transforms =>
          IF RemapEntriesValid
          THEN /\ DOMAIN state'.teams = DOMAIN state.teams
               /\ \A t \in DOMAIN state.teams :
                     IF t \in DOMAIN config.team_group_map
                     THEN /\ state'.teams[t].group_ids = <<config.team_group_map[t]>>
                          /\ state'.teams[t].organization_id
                                = state.teams[t].organization_id
                     ELSE state'.teams[t] = state.teams[t]
          ELSE /\ events' = Append(events, [type |-> "Failed", message |-> "InvalidRemap"])
               /\ stage' = "failed"
               /\ state'.leaderboard_pre_freeze = <<>>
               /\ state'.leaderboard_finalized = <<>>]_vars

\* Team 3, which the header lists without a group, was mapped to group 2 and
\* stands on the finalized board.
RemappedTeamOnBoard ==
    /\ Scored
    /\ config.team_group_map = 3 :> 2
    /\ state.teams[3].group_ids = <<2>>
    /\ \E i \in 1..Len(state.leaderboard_finalized) :
          state.leaderboard_finalized[i].team_id = 3

\* An entry of team_group_map named the absent team 4, and the run has failed.
InvalidRemapFailed ==
    /\ config.team_group_map = 4 :> 1
    /\ stage = "failed"
    /\ LastEvent.type = "Failed"
    /\ LastEvent.message = "InvalidRemap"

\* The submissions of a store that no judgement of the store references.
Unjudged(store) ==
    {sid \in DOMAIN store.submissions :
        \A jid \in DOMAIN store.judgements :
           store.judgements[jid].submission_id # sid}

\* The teams of a store without a group or with a group the store lacks.
BadlyGrouped(store) ==
    {t \in DOMAIN store.teams :
        \/ store.teams[t].group_ids = <<>>
        \/ \E i \in 1..Len(store.teams[t].group_ids) :
              store.teams[t].group_ids[i] \notin DOMAIN store.groups}

\* The step ends the run with Failed and without a board.
FailsWithoutBoard ==
    /\ Len(events') = Len(events) + 1
    /\ events'[Len(events')].type = "Failed"
    /\ stage' = "failed"
    /\ state'.leaderboard_pre_freeze = <<>>
    /\ state'.leaderboard_finalized = <<>>

\* No event of the run is a Finished.
NoFinished == \A i \in 1..Len(events) : events[i].type # "Finished"

\* C24: when the transformed store holds a submission that no judgement
\* references, the run ends with Failed, without Finished and without a board,
\* and the failure is UnjudgedSubmission whenever the remap and the team-group
\* check passed; Finished is only sent when every stored submission has a
\* judgement.
UnjudgedSubmissionFails ==
    /\ [][(Transforms /\ Unjudged(state') # {}) =>
             /\ FailsWithoutBoard
             /\ (RemapEntriesValid /\ BadlyGrouped(state') = {})
                   => events'[Len(events')].message = "UnjudgedSubmission"]_vars
    /\ [](Unjudged(state) # {} => NoFinished /\ stage \notin {"scoring", "set_award"})
    /\ [](~NoFinished => Unjudged(state) = {})

\* The feed ended with a submission of team 1 that no judgement followed,
\* team 1 is not filtered, and the run has failed with UnjudgedSubmission.
UnjudgedSubmissionFailed ==
    /\ stage = "failed"
    /\ LastEvent.type = "Failed"
    /\ LastEvent.message = "UnjudgedSubmission"
    /\ line.type = "submissions"
    /\ Unjudged(state) # {}
    /\ state.leaderboard_finalized = <<>>

\* C25: Finished is only sent when every team of the transformed store has a
\* non-empty group_ids list of groups of the store; a team without a group or
\* with an unknown group ends the run with Failed before any board is
\* computed, and with the team-group failure even when a submission is
\* unjudged or the contest has no start time.
TeamGroupsCheckedFirst ==
    /\ [][(Transforms /\ BadlyGrouped(state') # {}) =>
             /\ FailsWithoutBoard
             /\ RemapEntriesValid
                   => events'[Len(events')].message = "InvalidTeamGroups"]_vars
    /\ [](~NoFinished => BadlyGrouped(state) = {})

\* Team 3 has no group, a submission is unjudged and the contest has no start
\* time, and the run has failed on the team groups.
TeamGroupsFailedFirst ==
    /\ stage = "failed"
    /\ LastEvent.type = "Failed"
    /\ LastEvent.message = "InvalidTeamGroups"
    /\ state.teams[3].group_ids = <<>>
    /\ Unjudged(state) # {}
    /\ TheContest.start_time = None

\* The judgements of the store whose submission is stored without a time and
\* that have no start_time either.
JudgementsWithoutScoringTime ==
    {jid \in DOMAIN state.judgements :
        /\ state.judgements[jid].submission_id \in DOMAIN state.submissions
        /\ state.submissions[state.judgements[jid].submission_id].time = None
        /\ state.judgements[jid].start_time = None}

\* C26: a judgement of a stored submission without a time is scored at the
\* judgement's own start_time: the scoreboard stage only fails for a missing
\* time when a judgement lacks both the submission's time and its start_time.
UntimedSubmissionScoredAtJudgementStart ==
    (/\ WorkerDone
     /\ LastEvent.type = "Failed"
     /\ LastEvent.message = "UnknownSubmissionTime")
        => JudgementsWithoutScoringTime # {}

\* The problems of a status that count for the pre-freeze totals: solved and
\* not attempted during the freeze.
SolvedOutsideFreeze(ts) ==
    {p \in DOMAIN ts.problem_stats :
        ts.problem_stats[p].solved /\ ~ts.problem_stats[p].attempted_during_freeze}

\* The problems of a status that were solved inside the freeze.
SolvedInsideFreeze(ts) ==
    {p \in DOMAIN ts.problem_stats :
        ts.problem_stats[p].solved /\ ts.problem_stats[p].attempted_during_freeze}

\* The sum of the penalties of a status's stats of a set of problems.
PenaltySum(ts, problems) ==
    SumOver([p \in problems |-> ts.problem_stats[p].penalty], problems)

\* C27: on the pre-freeze board total_points is the number of the team's stats
\* that are solved and not attempted during the freeze, and total_penalty the
\* sum of their penalties; a stat solved inside the freeze adds nothing to
\* these totals and keeps its penalty stored.
PreFreezeTotalsSkipFreeze ==
    Scored => \A ts \in Range(state.leaderboard_pre_freeze) :
        /\ ts.total_points = Cardinality(SolvedOutsideFreeze(ts))
        /\ ts.total_penalty = PenaltySum(ts, SolvedOutsideFreeze(ts))
        /\ \A p \in SolvedInsideFreeze(ts) :
              ts.problem_stats[p].penalty = ContestPenalty(ts.problem_stats[p])

\* A team of the pre-freeze board solved one problem before the freeze and
\* one inside it, with a stored penalty, and has one point.
OnePointBeforeFreezeOneInside ==
    /\ Scored
    /\ \E ts \in Range(state.leaderboard_pre_freeze) :
          /\ Cardinality(SolvedOutsideFreeze(ts)) = 1
          /\ \E p \in SolvedInsideFreeze(ts) : ts.problem_stats[p].penalty > 0
          /\ ts.total_points = 1

\* The problems of a status that are solved.
SolvedProblems(ts) == {p \in DOMAIN ts.problem_stats : ts.problem_stats[p].solved}

\* The latest first_ac_time of a status's solved stats, None without one.
LatestAccept(ts) ==
    LET ac_times == UNION {ts.problem_stats[p].first_ac_time : p \in SolvedProblems(ts)}
    IN IF ac_times = {} THEN None ELSE Some(Max(ac_times))

\* C28: on the finalized board total_points is the number of the team's
\* solved stats, total_penalty the sum of their penalties and last_ac_time
\* the latest of their first_ac_time, whether or not they were attempted
\* during the freeze; the board has exactly one row per team of the store,
\* with the per-problem stats of the team's pre-freeze row.
FinalizedTotalsCountAllSolved ==
    Scored =>
        /\ Len(state.leaderboard_finalized) = Cardinality(DOMAIN state.teams)
        /\ {ts.team_id : ts \in Range(state.leaderboard_finalized)} = DOMAIN state.teams
        /\ \A ts \in Range(state.leaderboard_finalized) :
              /\ ts.total_points = Cardinality(SolvedProblems(ts))
              /\ ts.total_penalty = PenaltySum(ts, SolvedProblems(ts))
              /\ ts.last_ac_time = LatestAccept(ts)
              /\ ts.problem_stats
                    = RowOf(state.leaderboard_pre_freeze, ts.team_id).problem_stats

\* A team of the finalized board solved one problem before the freeze and one
\* inside it and has two points and the later accept as last_ac_time.
TwoPointsOneFromFreeze ==
    /\ Scored
    /\ \E ts \in Range(state.leaderboard_finalized) :
          /\ Cardinality(SolvedOutsideFreeze(ts)) = 1
          /\ Cardinality(SolvedInsideFreeze(ts)) = 1
          /\ ts.total_points = 2
          /\ ts.last_ac_time = Some(310)

\* The step is one iteration of the first scoring loop that applies the next
\* judgement of the order to the statuses.
ScoresJudgement ==
    /\ stage = "scoring_loop"
    /\ stage' = "scoring_loop"
    /\ judgement_order # <<>>
    /\ judgement_order' = Tail(judgement_order)

\* The judgement the loop is at, its submission and its verdict.
NextJudgement == state.judgements[Head(judgement_order)]
NextSubmission == state.submissions[NextJudgement.submission_id]
VerdictKnown ==
    /\ NextJudgement.judgement_type_id # None
    /\ Unwrap(NextJudgement.judgement_type_id) \in DOMAIN state.judgement_types
NextVerdict == state.judgement_types[Unwrap(NextJudgement.judgement_type_id)]

\* The stat of the submission's (team, problem) in a status map: the initial
\* stat while the map has none.
StatIn(map) ==
    LET stats == map[NextSubmission.team_id].problem_stats IN
    IF NextSubmission.problem_id \in DOMAIN stats
    THEN stats[NextSubmission.problem_id]
    ELSE NewProblemStat

\* C29: a judgement with a known verdict on an unsolved stat sets
\* attempted_during_freeze to (t > freeze_time), strictly, whatever the
\* verdict's penalty and solved are; a judgement with an absent or unknown
\* verdict, or on a solved stat, leaves the flag as it was.
FreezeFlagAssignedByKnownVerdict ==
    [][ScoresJudgement =>
          StatIn(pre_freeze_map').attempted_during_freeze
             = IF VerdictKnown /\ ~StatIn(pre_freeze_map).solved
               THEN Unwrap(NextSubmission.time) > FreezeTime
               ELSE StatIn(pre_freeze_map).attempted_during_freeze]_vars

\* The loop is past a CE judgement of a submission in the freeze that set the
\* flag of an unsolved stat, and that stat was not flagged by a submission at
\* freeze_time before.
FlagSetByCompileError ==
    /\ stage = "scoring_loop"
    /\ Len(judgement_order) = 0
    /\ \E jid \in DOMAIN state.judgements :
          /\ state.judgements[jid].judgement_type_id = Some("CE")
          /\ state.submissions[state.judgements[jid].submission_id].time = Some(310)
          /\ state.submissions[state.judgements[jid].submission_id].problem_id = 1
    /\ \E sid \in DOMAIN state.submissions :
          /\ state.submissions[sid].time = Some(240)
          /\ state.submissions[sid].problem_id = 1
          /\ state.judgements[sid].judgement_type_id = Some("WA")
    /\ 1 \in DOMAIN pre_freeze_map[1].problem_stats
    /\ pre_freeze_map[1].problem_stats[1].attempted_during_freeze
    /\ ~pre_freeze_map[1].problem_stats[1].solved

\* The verdict of the judgement the loop is at counts as an attempt.
VerdictCounts == VerdictKnown /\ (NextVerdict.penalty \/ NextVerdict.solved)

\* C30: a judgement increments submissions_before_solved exactly when the
\* stat is not yet solved and its verdict has penalty or solved; a judgement
\* with a verdict that has neither, or with an absent or unknown verdict,
\* leaves the counter, solved and the penalty as they were, so that a later
\* accepted submission is charged 20 minutes for each counted attempt only.
AttemptsCountedByVerdict ==
    [][ScoresJudgement =>
          LET before == StatIn(pre_freeze_map)
              after == StatIn(pre_freeze_map')
          IN
          /\ after.submissions_before_solved
                = IF ~before.solved /\ VerdictCounts
                  THEN before.submissions_before_solved + 1
                  ELSE before.submissions_before_solved
          /\ ~VerdictCounts =>
                /\ after.solved = before.solved
                /\ after.penalty = before.penalty
          /\ (~before.solved /\ after.solved) =>
                after.penalty
                   = NumMinutes(Unwrap(NextSubmission.time)
                                   - Unwrap(TheContest.start_time))
                     + before.submissions_before_solved * 20]_vars

\* The loop is past a CE judgement and a later AC judgement of the same
\* problem, and the stat is solved after one counted submission with the
\* accept's minutes as its penalty.
AcceptAfterCompileErrorUncharged ==
    /\ stage = "scoring_loop"
    /\ Len(judgement_order) = 0
    /\ Cardinality(DOMAIN state.judgements) = 2
    /\ state.judgements[1].judgement_type_id = Some("CE")
    /\ state.judgements[2].judgement_type_id = Some("AC")
    /\ state.submissions[1].problem_id = 1
    /\ state.submissions[2].problem_id = 1
    /\ state.submissions[2].time = Some(240)
    /\ pre_freeze_map[1].problem_stats[1].solved
    /\ pre_freeze_map[1].problem_stats[1].submissions_before_solved = 1
    /\ pre_freeze_map[1].problem_stats[1].penalty = 4

\* The board of the reveal.
Board == state.leaderboard_pre_freeze

\* The step is one step() of the reveal.
Steps == stage = "present" /\ space_pressed /\ ~space_pressed'

\* The flow a step() starts from: the frame syncs the focus before it handles
\* the key.
FlowAtStep == sync_reveal_focus_on_enter(flow, Board)

\* The row (1-based) of the focus at a step().
FocusRow == clamp_current_index(FlowAtStep.current_reveal_index, Len(Board)) + 1

\* The frozen problems of a status.
FrozenProblems(ts) ==
    {p \in DOMAIN ts.problem_stats : ts.problem_stats[p].attempted_during_freeze}

\* Problem p comes before problem q in (ordinal, label) order.
ProblemBefore(p, q) ==
    \/ state.problems[p].ordinal < state.problems[q].ordinal
    \/ state.problems[p].ordinal = state.problems[q].ordinal /\ p < q

\* The first of a non-empty set of problems in (ordinal, label) order.
FirstProblem(problems) ==
    CHOOSE p \in problems : \A q \in problems \ {p} : ProblemBefore(p, q)

\* The step is a step() in phase RevealStep with the focus on a team that
\* has a frozen cell.
RevealActs ==
    /\ Steps
    /\ Board # <<>>
    /\ FlowAtStep.space_phase.tag = "RevealStep"
    /\ FlowAtStep.current_reveal_index # None
    /\ FrozenProblems(Board[FocusRow]) # {}

\* C31: a RevealStep step that acts on the team at the current row clears the
\* freeze flag of exactly one cell, the team's first frozen problem in
\* (ordinal, label) order, and changes nothing else on the board: no total,
\* no last_ac_time and no row's position.
RevealClearsFirstFrozenCell ==
    [][RevealActs =>
          LET first == FirstProblem(FrozenProblems(Board[FocusRow])) IN
          /\ Len(Board') = Len(Board)
          /\ \A i \in 1..Len(Board) :
                Board'[i] = IF i = FocusRow
                            THEN [Board[i] EXCEPT
                                    !.problem_stats[first].attempted_during_freeze = FALSE]
                            ELSE Board[i]]_vars

\* A team with submissions on both problems inside the freeze has had its
\* rejected problem 1 revealed while its problem 2 is still frozen.
FirstOfTwoCellsRevealed ==
    /\ stage = "present"
    /\ Phase.tag = "RevealStep"
    /\ \E i \in 1..Len(Board) :
          /\ DOMAIN Board[i].problem_stats = {1, 2}
          /\ ~Board[i].problem_stats[1].attempted_during_freeze
          /\ ~Board[i].problem_stats[1].solved
          /\ Board[i].problem_stats[1].submissions_before_solved > 0
          /\ \E sid \in DOMAIN state.submissions :
                /\ state.submissions[sid].team_id = Board[i].team_id
                /\ state.submissions[sid].problem_id = 1
                /\ state.submissions[sid].time = Some(310)
          /\ Board[i].problem_stats[2].attempted_during_freeze

\* The totals of the teams of a board, by team id.
TotalsOn(board) ==
    [t \in Range(TeamOrder(board)) |->
        LET ts == RowOf(board, t)
        IN [total_points |-> ts.total_points,
            total_penalty |-> ts.total_penalty,
            last_ac_time |-> ts.last_ac_time]]

\* The step is a step() in phase ApplyPostReveal with a solved_resort payload.
CommitsSolvedCell ==
    /\ Steps
    /\ Board # <<>>
    /\ Phase.tag = "ApplyPostReveal"
    /\ Phase.solved_resort # None

\* C32: during the reveal the totals of a team only change in an
\* ApplyPostReveal step with solved_resort = (team, problem). That step adds
\* the stat's stored penalty to the team's total_penalty and 1 to its
\* total_points, raises last_ac_time to first_ac_time when that is later,
\* leaves the totals of every other team alone, re-sorts the board and reports
\* the team ids before and after, which are permutations of each other.
TotalsMoveOnlyWhenSolvedCellCommitted ==
    [][(stage = "present" /\ stage' = "present") =>
          /\ TotalsOn(Board') # TotalsOn(Board) => CommitsSolvedCell
          /\ CommitsSolvedCell =>
                LET team_id == Unwrap(Phase.solved_resort)[1]
                    problem_id == Unwrap(Phase.solved_resort)[2]
                    before == RowOf(Board, team_id)
                    after == RowOf(Board', team_id)
                    stat == before.problem_stats[problem_id]
                IN
                /\ after.total_points = before.total_points + 1
                /\ after.total_penalty = before.total_penalty + stat.penalty
                /\ after.last_ac_time
                      = IF before.last_ac_time = None
                           \/ Unwrap(stat.first_ac_time) > Unwrap(before.last_ac_time)
                        THEN stat.first_ac_time
                        ELSE before.last_ac_time
                /\ after.problem_stats = before.problem_stats
                /\ \A i \in 1..Len(Board) :
                      Board[i].team_id # team_id => Board[i] \in Range(Board')
                /\ Len(Board') = Len(Board)
                /\ Range(TeamOrder(Board')) = Range(TeamOrder(Board))
                /\ \A i, k \in 1..Len(Board') :
                      i < k => cmp(Board'[i], Board'[k]) # "Greater"
                /\ outcome'.row_reorder = Some(<<TeamOrder(Board), TeamOrder(Board')>>)]_vars

\* A team whose only frozen cell was an accept at 310 s after one rejected
\* submission has moved from 0 points to 1 point and penalty 25 in the step
\* that reported the re-sort.
TotalsMovedOnce ==
    /\ stage = "present"
    /\ outcome.row_reorder # None
    /\ \E i \in 1..Len(Board) :
          /\ Board[i].total_points = 1
          /\ Board[i].total_penalty = 25
          /\ Board[i].last_ac_time = Some(310)
          /\ FrozenProblems(Board[i]) = {}

TotalsAgreeWithRevealedCells ==
    (/\ stage = "present"
     /\ ~(Phase.tag = "ApplyPostReveal" /\ Phase.solved_resort # None))
        => \A ts \in Range(Board) :
              /\ ts.total_points = Cardinality(SolvedOutsideFreeze(ts))
              /\ ts.total_penalty = PenaltySum(ts, SolvedOutsideFreeze(ts))

\* The reveal is past the step that committed a solved cell: the re-sort was
\* reported, the phase is RevealStep again and a team has points from a
\* problem accepted inside the freeze.
RevealedCellCommitted ==
    /\ stage = "present"
    /\ Phase.tag = "RevealStep"
    /\ outcome.row_reorder # None
    /\ \E ts \in Range(Board) :
          \E p \in SolvedOutsideFreeze(ts) :
             ts.problem_stats[p].first_ac_time = Some(310)

\* C35: whenever the phase is RevealStep and, after initialization,
\* current_reveal_index is Some(i), no team at a row index above i has a
\* frozen cell: the reveal walks the board from the bottom up.
NoFrozenCellBelowCursor ==
    (/\ stage = "present"
     /\ Phase.tag = "RevealStep"
     /\ flow.reveal_initialized
     /\ flow.current_reveal_index # None)
        => \A j \in 1..Len(Board) :
              j - 1 > Unwrap(flow.current_reveal_index)
                 => ~team_has_pending_freeze(Board[j])

\* The cursor has moved up past a row whose team submitted inside the freeze
\* and has all its cells revealed, while a row above it is still frozen.
CursorAboveRevealedRow ==
    /\ stage = "present"
    /\ Phase.tag = "RevealStep"
    /\ flow.reveal_initialized
    /\ flow.current_reveal_index # None
    /\ AnyPending(Board)
    /\ \E j \in 1..Len(Board) :
          /\ j - 1 > Unwrap(flow.current_reveal_index)
          /\ \E sid \in DOMAIN state.submissions :
                /\ state.submissions[sid].team_id = Board[j].team_id
                /\ state.submissions[sid].time = Some(310)

\* C36: through every step of the reveal the board holds the same team ids,
\* each once, as when the reveal started; it is sorted in non-decreasing
\* comparator order; and a scroll index returned by a step is below the
\* board's length.
TeamIdsOf(board) == {board[i].team_id : i \in 1..Len(board)}
BoardStaysSortedPermutation ==
    /\ [][stage = "present" =>
             /\ Len(Board') = Len(Board)
             /\ TeamIdsOf(Board') = TeamIdsOf(Board)]_vars
    /\ [](stage = "present" =>
             /\ Cardinality(TeamIdsOf(Board)) = Len(Board)
             /\ IsSorted(Board)
             /\ outcome.scroll_index # None
                   => Unwrap(outcome.scroll_index) < Len(Board))

\* A step has moved a team to another row and returned a scroll index.
TeamMovedUpTheBoard ==
    /\ stage = "present"
    /\ outcome.row_reorder # None
    /\ Unwrap(outcome.row_reorder)[1] # Unwrap(outcome.row_reorder)[2]
    /\ outcome.scroll_index # None

\* C37: on either board after the scoreboard stage and in every state of the
\* reveal, a team's last_ac_time is absent exactly when its total_points is 0,
\* so that no two rows of a board take the comparator to its inconsistent
\* branch.
BothBoards == {state.leaderboard_pre_freeze, state.leaderboard_finalized}
LastAcceptAbsentIffNoPoints ==
    stage \in {"set_award", "present"} =>
        \A board \in BothBoards :
           /\ \A ts \in Range(board) :
                 (ts.last_ac_time = None) <=> (ts.total_points = 0)
           /\ \A i, k \in 1..Len(board) :
                 cmp(board[i], board[k]) # "Unreachable"

\* The reveal has committed a frozen accept of a team that had no points: its
\* last_ac_time was absent on the board before the freeze and is present now,
\* next to a team with no points.
FirstAcceptRevealed ==
    /\ stage = "present"
    /\ outcome.row_reorder # None
    /\ \E i, k \in 1..Len(Board) :
          /\ Board[i].total_points = 1
          /\ Board[i].last_ac_time = Some(310)
          /\ Board[k].total_points = 0
          /\ Board[k].last_ac_time = None
          /\ Board[k].sortorder = Board[i].sortorder

UnknownTeamJudgements(store) ==
    {jid \in DOMAIN store.judgements :
        /\ store.judgements[jid].submission_id \in DOMAIN store.submissions
        /\ store.submissions[store.judgements[jid].submission_id].team_id
              \notin DOMAIN store.teams}

\* The judgements of the store whose submission_id matches no stored
\* submission.
DanglingJudgements(store) ==
    {jid \in DOMAIN store.judgements :
        store.judgements[jid].submission_id \notin DOMAIN store.submissions}

\* C39: when the transformed store holds a judgement of a stored submission
\* whose team is not in the store, the scoreboard stage fails with the unknown
\* team and the run ends with Failed and without Finished; otherwise judgements
\* whose submission is missing are skipped, one warning each in the Finished
\* event, and do not fail the run.
UnknownTeamFailsMissingSubmissionWarns ==
    [][(stage = "scoring" /\ stage' # "scoring") =>
          IF UnknownTeamJudgements(state) # {}
          THEN /\ events'[Len(events')] = [type |-> "Failed", message |-> "UnknownTeam"]
               /\ \A i \in 1..Len(events') : events'[i].type # "Finished"
               /\ stage' = "failed"
          ELSE /\ events'[Len(events')].type = "Finished"
               /\ events'[Len(events')].warnings = DanglingJudgements(state)
               /\ stage' = "set_award"]_vars

\* The store holds a judged submission of the undefined team 4 and a judgement
\* of a missing submission, and the run has ended with the Failed of the
\* unknown team.
UnknownTeamFailedTheRun ==
    /\ stage = "failed"
    /\ UnknownTeamJudgements(state) # {}
    /\ DanglingJudgements(state) # {}
    /\ LastEvent.type = "Failed"
    /\ LastEvent.message = "UnknownTeam"

====
